---------------------------- MODULE Spec2Model ----------------------------
(***************************************************************************)
(* Tomasulo simulator with Reorder Buffer (src/tomasulo.cpp).              *)
(*                                                                         *)
(* The state is the private state of class TomasuloSimulator.  One call of *)
(* stepSimulation runs the five pipeline stages in a fixed order; the      *)
(* variable pc is the position inside that call, so that each stage is one *)
(* action and the states between two stages can be observed.  A cycle      *)
(* boundary is a state with pc = "commit".                                 *)
(*                                                                         *)
(* Indices (instructions, ROB slots, reservation stations) are 0-based as  *)
(* in the source; vectors are functions over 0..n-1.  Register names and   *)
(* ROB tags are strings, as in the source.                                 *)
(***************************************************************************)
EXTENDS Integers, Sequences, FiniteSets, TLC

(***************************************************************************)
(* Program constants.                                                      *)
(***************************************************************************)
ADD_LATENCY == 2
MUL_LATENCY == 10
DIV_LATENCY == 40
LOAD_LATENCY == 2
STORE_LATENCY == 2
MEMORY_SIZE == 1024
NUM_REGISTERS == 32
INITIAL_REGISTER_VALUE == 10

(***************************************************************************)
(* Bounds of the model: the longest program generated from InstructionPool *)
(* under Spec, and under FairSpec.                                         *)
(***************************************************************************)
MaxProgLen == 3

MaxFairProgLen == 2

(***************************************************************************)
(* std::to_string on a non-negative int, and on any int.                   *)
(***************************************************************************)
Digit == [d \in 0..9 |-> CASE d = 0 -> "0" [] d = 1 -> "1" [] d = 2 -> "2"
                           [] d = 3 -> "3" [] d = 4 -> "4" [] d = 5 -> "5"
                           [] d = 6 -> "6" [] d = 7 -> "7" [] d = 8 -> "8"
                           [] OTHER -> "9"]

RECURSIVE NatString(_)
NatString(n) == IF n < 10 THEN Digit[n] ELSE NatString(n \div 10) \o Digit[n % 10]

to_string(n) == IF n < 0 THEN "-" \o NatString(-n) ELSE NatString(n)

(***************************************************************************)
(* Register names "F0" .. "F31" (the keys the constructor creates).        *)
(***************************************************************************)
RegName(i) == "F" \o to_string(i)

RegNames == {RegName(i) : i \in 0..(NUM_REGISTERS - 1)}

(***************************************************************************)
(* The offsets that occur in the programs of the model, and atoi on their  *)
(* decimal tokens (an instruction keeps its offset as the parsed token).   *)
(***************************************************************************)
OffsetValues == {-20, 0, 5, 50, 100, 1020}

atoi(s) == IF \E n \in OffsetValues : to_string(n) = s
           THEN CHOOSE n \in OffsetValues : to_string(n) = s
           ELSE 0

(***************************************************************************)
(* C++ integer division truncates toward zero.                             *)
(***************************************************************************)
Abs(x) == IF x < 0 THEN -x ELSE x

CDiv(a, b) == IF (a < 0) = (b < 0) THEN Abs(a) \div Abs(b) ELSE -(Abs(a) \div Abs(b))

(***************************************************************************)
(* struct Instruction, as loadInstructions fills it.                       *)
(***************************************************************************)
Arith(op, d, s1, s2) ==
    [type |-> op, dest |-> d, src1 |-> s1, src2 |-> s2,
     issue |-> -1, execComp |-> -1, writeResult |-> -1, commitCycle |-> -1]

\* L.D d, off(base): src1 holds the offset token, src2 the base register.
Load(d, off, base) ==
    [type |-> "LOAD", dest |-> d, src1 |-> to_string(off), src2 |-> base,
     issue |-> -1, execComp |-> -1, writeResult |-> -1, commitCycle |-> -1]

\* S.D data, off(base): dest holds the offset token, src1 the data register.
Store(data, off, base) ==
    [type |-> "STORE", dest |-> to_string(off), src1 |-> data, src2 |-> base,
     issue |-> -1, execComp |-> -1, writeResult |-> -1, commitCycle |-> -1]

(***************************************************************************)
(* Default-constructed table entries.                                      *)
(***************************************************************************)
EmptyROBEntry ==
    [busy |-> FALSE, instructionIndex |-> -1, type |-> "INVALID",
     state |-> "ROB_EMPTY", destinationRegister |-> "", value |-> 0,
     address |-> 0, valueReady |-> FALSE]

EmptyRS ==
    [busy |-> FALSE, op |-> "INVALID", Vj |-> 0, Vk |-> 0, Qj |-> "", Qk |-> "",
     destRobIndex |-> "", A |-> 0, instructionIndex |-> -1]

FreeRegisterStatus == [busy |-> FALSE, robIndex |-> -1]

(***************************************************************************)
(* Constructor arguments: the default pool sizes, and a small machine in   *)
(* which the structural hazards occur with short programs.                 *)
(***************************************************************************)
DefaultConfig ==
    [addRSCount |-> 3, mulRSCount |-> 2, loadRSCount |-> 3, storeRSCount |-> 3,
     rob_s |-> 16]

SmallConfig ==
    [addRSCount |-> 1, mulRSCount |-> 1, loadRSCount |-> 1, storeRSCount |-> 1,
     rob_s |-> 2]

Configs == {DefaultConfig, SmallConfig}

(***************************************************************************)
(* Programs.  The named ones are the scenarios of the documentation and    *)
(* programs that exercise one hazard each; Programs adds every sequence of *)
(* at most MaxProgLen instructions over InstructionPool.                   *)
(***************************************************************************)
Scenario1 == << Arith("ADD", "F1", "F2", "F3"), Arith("SUB", "F4", "F1", "F5"),
                Arith("MUL", "F6", "F4", "F1") >>

Scenario2 == << Arith("ADD", "F1", "F2", "F3"), Arith("ADD", "F1", "F4", "F5") >>

Scenario3 == << Arith("DIV", "F1", "F2", "F3"), Arith("ADD", "F4", "F1", "F5"),
                Arith("ADD", "F6", "F2", "F3") >>

Scenario4 == << Load("F2", 100, "F0"), Arith("ADD", "F3", "F2", "F1") >>

Scenario5 == << Store("F2", 50, "F0"), Load("F3", 50, "F0") >>

Scenario6 == << Arith("ADD", "F1", "F2", "F3"), Arith("MUL", "F4", "F1", "F5"),
                Store("F4", 0, "F0") >>

\* Two multiplications that wait for the same producer.
SharedProducer == << Arith("ADD", "F1", "F2", "F3"), Arith("MUL", "F4", "F1", "F5"),
                     Arith("MUL", "F6", "F1", "F5") >>

\* A store whose data comes late, followed by a load of the same address.
LateStoreThenLoad == << Arith("MUL", "F1", "F2", "F3"), Store("F1", 5, "F0"),
                        Load("F2", 5, "F0") >>

\* A load followed by a store of the loaded value to another address.
LoadThenStore == << Load("F2", 100, "F0"), Store("F2", 50, "F0") >>

\* The same, the loaded value being the store's base register as well.
LoadThenStoreViaBase == << Load("F2", 100, "F0"), Store("F2", 5, "F2") >>

\* A division whose divisor is the zero an older SUB produces.
DivByZero == << Arith("SUB", "F1", "F2", "F2"), Arith("DIV", "F3", "F2", "F1"),
                Arith("ADD", "F4", "F3", "F2") >>

\* One division, and three divisions each waiting for the one before.
SingleDiv == << Arith("DIV", "F1", "F2", "F3") >>

DivChain == << Arith("DIV", "F1", "F2", "F3"), Arith("DIV", "F4", "F1", "F3"),
               Arith("DIV", "F5", "F4", "F3") >>

\* Two multiplications that wait for one ADD, then two that wait for nothing
\* and take the stations the first two release.
ReusedMulStations ==
    << Arith("ADD", "F1", "F2", "F3"), Arith("MUL", "F4", "F1", "F5"),
       Arith("MUL", "F6", "F1", "F5"), Arith("MUL", "F7", "F2", "F3"),
       Arith("MUL", "F8", "F2", "F3") >>

NamedPrograms ==
    {Scenario1, Scenario2, Scenario3, Scenario4, Scenario5, Scenario6,
     SharedProducer, LateStoreThenLoad, LoadThenStore, LoadThenStoreViaBase,
     DivByZero, SingleDiv, DivChain, ReusedMulStations}

InstructionPool ==
    << Arith("ADD", "F1", "F0", "F0"),
       Arith("SUB", "F2", "F1", "F1"),
       Arith("MUL", "F1", "F2", "F1"),
       Load("F1", 5, "F2"),
       Load("F2", -20, "F0"),
       Store("F1", 5, "F0"),
       Store("F2", 1020, "F1") >>

PoolPrograms(maxLen) ==
    UNION {[1..n -> {InstructionPool[k] : k \in 1..Len(InstructionPool)}] : n \in 1..maxLen}

Programs == NamedPrograms \cup PoolPrograms(MaxProgLen)

\* The programs of the specification with fairness (FairSpec).
FairPrograms == NamedPrograms \cup PoolPrograms(MaxFairProgLen)

VARIABLES
    instructions,           \* vector<Instruction>
    addRS, mulRS, loadRS, storeRS,  \* vector<ReservationStation>, one per group
    rob,                    \* vector<ReorderBufferEntry>
    registers,              \* map<string,int>
    regStatus,              \* map<string,RegisterStatus>
    memory,                 \* int memory[1024]; see MemoryAt
    cycle,
    nextInstructionIndex,
    robHead, robTail,
    robEntriesAvailable,
    ROB_SIZE,               \* const member, set by the constructor
    executingInstructions,  \* vector<ExecutingInstruction>
    completedForCDB,        \* queue<int>
    pc                      \* position inside stepSimulation

vars == << instructions, addRS, mulRS, loadRS, storeRS, rob, registers, regStatus,
           memory, cycle, nextInstructionIndex, robHead, robTail,
           robEntriesAvailable, ROB_SIZE, executingInstructions, completedForCDB, pc >>

(***************************************************************************)
(* memory holds the words that a STORE has written; every other word still *)
(* holds what the constructor put there, memory[i] = i.                    *)
(***************************************************************************)
MemoryAt(mem, a) == IF a \in DOMAIN mem THEN mem[a] ELSE a

MemoryWrite(mem, a, v) == [x \in (DOMAIN mem) \cup {a} |-> IF x = a THEN v ELSE mem[x]]

InRange(a) == a >= 0 /\ a < MEMORY_SIZE

NumInstructions == Cardinality(DOMAIN instructions)

(***************************************************************************)
(* Constructor followed by loadInstructions.                               *)
(***************************************************************************)
InitFrom(programs) ==
    \E prog \in programs, cfg \in Configs :
        /\ instructions = [i \in 0..(Len(prog) - 1) |-> prog[i + 1]]
        /\ addRS = [i \in 0..(cfg.addRSCount - 1) |-> EmptyRS]
        /\ mulRS = [i \in 0..(cfg.mulRSCount - 1) |-> EmptyRS]
        /\ loadRS = [i \in 0..(cfg.loadRSCount - 1) |-> EmptyRS]
        /\ storeRS = [i \in 0..(cfg.storeRSCount - 1) |-> EmptyRS]
        /\ rob = [i \in 0..(cfg.rob_s - 1) |-> EmptyROBEntry]
        /\ ROB_SIZE = cfg.rob_s
        /\ registers = [r \in RegNames |-> INITIAL_REGISTER_VALUE]
        /\ regStatus = [r \in RegNames |-> FreeRegisterStatus]
        /\ memory = << >>
        /\ cycle = 0
        /\ nextInstructionIndex = 0
        /\ robHead = 0
        /\ robTail = 0
        /\ robEntriesAvailable = cfg.rob_s
        /\ executingInstructions = << >>
        /\ completedForCDB = << >>
        /\ pc = "commit"

Init == InitFrom(Programs)

FairInit == InitFrom(FairPrograms)

\* Faulty variant of isSimulationComplete: the FU tracker and the CDB queue
\* are not looked at.
isSimulationCompleteNoTracker ==
    /\ ~(nextInstructionIndex < NumInstructions)
    /\ ~(robEntriesAvailable # ROB_SIZE)
    /\ \A i \in DOMAIN instructions : instructions[i].commitCycle # -1

\* Faulty variant of isSimulationComplete: the ROB and the commit stamps are
\* not looked at.
isSimulationCompleteEarly ==
    /\ ~(nextInstructionIndex < NumInstructions)
    /\ ~(executingInstructions # << >> \/ completedForCDB # << >>)

(***************************************************************************)
(* isSimulationComplete: the done predicate of the driver loop.            *)
(***************************************************************************)
isSimulationComplete ==
    /\ ~(nextInstructionIndex < NumInstructions)
    /\ ~(robEntriesAvailable # ROB_SIZE)
    /\ ~(executingInstructions # << >> \/ completedForCDB # << >>)
    /\ \A i \in DOMAIN instructions : instructions[i].commitCycle # -1

(***************************************************************************)
(* commitInstruction.                                                      *)
(***************************************************************************)
\* The head may commit: the ROB is not empty, the head is busy, has written
\* its result, and is not a STORE whose data is missing.
CanCommit ==
    /\ ~(robEntriesAvailable = ROB_SIZE \/ ~rob[robHead].busy)
    /\ rob[robHead].state = "ROB_WRITERESULT"
    /\ ~(rob[robHead].type = "STORE" /\ ~rob[robHead].valueReady)

\* The register file after the head commits.
CommitRegisters(regs, head) ==
    IF head.type # "STORE"
    THEN [regs EXCEPT ![head.destinationRegister] = head.value]
    ELSE regs

\* Faulty variant of CommitRegStatus: the entry is freed although a younger
\* instruction has renamed the register.
CommitRegStatusAlwaysFrees(status, head, headIdx) ==
    IF head.type # "STORE"
    THEN [status EXCEPT ![head.destinationRegister] = [busy |-> FALSE, robIndex |-> -1]]
    ELSE status

\* Faulty variant of CommitRegStatus: the entry is never freed.
CommitRegStatusNeverFrees(status, head, headIdx) == status

\* The register status after the head (ROB slot headIdx) commits: the entry of
\* the destination is freed only if it still names this slot.
CommitRegStatus(status, head, headIdx) ==
    IF /\ head.type # "STORE"
       /\ status[head.destinationRegister].busy
       /\ status[head.destinationRegister].robIndex = headIdx
    THEN [status EXCEPT ![head.destinationRegister] = [busy |-> FALSE, robIndex |-> -1]]
    ELSE status

\* Faulty variant of CommitMemory: the type of the head is not looked at.
CommitMemoryAnyType(mem, head) ==
    IF InRange(head.address)
    THEN MemoryWrite(mem, head.address, head.value)
    ELSE mem

\* Faulty variant of CommitMemory: a STORE writes without the range test.
CommitMemoryUnchecked(mem, head) ==
    IF head.type = "STORE"
    THEN MemoryWrite(mem, head.address, head.value)
    ELSE mem

\* The memory after the head commits.
CommitMemory(mem, head) ==
    IF head.type = "STORE" /\ InRange(head.address)
    THEN MemoryWrite(mem, head.address, head.value)
    ELSE mem

\* Faulty variant of NextHead: the head stays where it is.
NextHeadStays(h) == h

\* Faulty variant of NextHead: the head skips a slot.
NextHeadSkips(h) == (h + 2) % ROB_SIZE

\* The head pointer after a commit.
NextHead(h) == (h + 1) % ROB_SIZE

commitInstruction ==
    /\ pc = "commit"
    /\ ~isSimulationComplete      \* the driver calls stepSimulation only then
    /\ pc' = "writeback"
    /\ IF CanCommit
       THEN LET head == rob[robHead] IN
            /\ instructions' = [instructions EXCEPT
                                   ![head.instructionIndex].commitCycle = cycle]
            /\ registers' = CommitRegisters(registers, head)
            /\ regStatus' = CommitRegStatus(regStatus, head, robHead)
            /\ memory' = CommitMemory(memory, head)
            /\ rob' = [rob EXCEPT ![robHead].busy = FALSE,
                                  ![robHead].state = "ROB_EMPTY"]
            /\ robHead' = NextHead(robHead)
            /\ robEntriesAvailable' = robEntriesAvailable + 1
       ELSE UNCHANGED << instructions, registers, regStatus, memory, rob, robHead,
                         robEntriesAvailable >>
    /\ UNCHANGED << addRS, mulRS, loadRS, storeRS, cycle, nextInstructionIndex,
                    robTail, ROB_SIZE, executingInstructions, completedForCDB >>

(***************************************************************************)
(* Helpers on the four reservation-station groups.                         *)
(***************************************************************************)
RSTypes == << "ADD", "MUL", "LOAD", "STORE" >>

RSArray(t) ==
    CASE t = "ADD" -> addRS
      [] t = "MUL" -> mulRS
      [] t = "LOAD" -> loadRS
      [] OTHER -> storeRS

MinOf(S) == CHOOSE x \in S : \A y \in S : x <= y

\* std::stoi on a tag that to_string made from a ROB index.
stoi(s) == CHOOSE n \in DOMAIN rob : to_string(n) = s

\* The first busy station of an array that holds instruction idx, or -1.
FirstHolding(arr, idx) ==
    LET S == {i \in DOMAIN arr : arr[i].instructionIndex = idx /\ arr[i].busy}
    IN  IF S = {} THEN -1 ELSE MinOf(S)

\* The station processWriteBack finds for instruction idx: the groups are
\* searched in the order ADD, MUL, LOAD, STORE.
FindRSOf(idx) ==
    IF FirstHolding(addRS, idx) # -1
    THEN [rsType |-> "ADD", rsIndex |-> FirstHolding(addRS, idx)]
    ELSE IF FirstHolding(mulRS, idx) # -1
    THEN [rsType |-> "MUL", rsIndex |-> FirstHolding(mulRS, idx)]
    ELSE IF FirstHolding(loadRS, idx) # -1
    THEN [rsType |-> "LOAD", rsIndex |-> FirstHolding(loadRS, idx)]
    ELSE IF FirstHolding(storeRS, idx) # -1
    THEN [rsType |-> "STORE", rsIndex |-> FirstHolding(storeRS, idx)]
    ELSE [rsType |-> "", rsIndex |-> -1]

(***************************************************************************)
(* processWriteBack and updateDependentRS.                                 *)
(***************************************************************************)
\* Faulty variant of EffectiveAddr: the offset is left out.
EffectiveAddrNoOffset(rs) == rs.Vk

\* The effective address of a LOAD or STORE station.
EffectiveAddr(rs) == rs.A + rs.Vk

\* Faulty variant of ResultData: a division by zero passes the dividend on.
ResultDataDivByZeroKeepsDividend(type, rs, mem) ==
    CASE type = "ADD" -> rs.Vj + rs.Vk
      [] type = "SUB" -> rs.Vj - rs.Vk
      [] type = "MUL" -> rs.Vj * rs.Vk
      [] type = "DIV" -> IF rs.Vk # 0 THEN CDiv(rs.Vj, rs.Vk) ELSE rs.Vj
      [] type = "LOAD" -> IF InRange(rs.A + rs.Vk)
                          THEN MemoryAt(mem, rs.A + rs.Vk)
                          ELSE 0
      [] OTHER -> rs.Vj

\* Faulty variant of ResultData: a LOAD reads memory without the range test.
ResultDataLoadUnchecked(type, rs, mem) ==
    CASE type = "ADD" -> rs.Vj + rs.Vk
      [] type = "SUB" -> rs.Vj - rs.Vk
      [] type = "MUL" -> rs.Vj * rs.Vk
      [] type = "DIV" -> IF rs.Vk # 0 THEN CDiv(rs.Vj, rs.Vk) ELSE 0
      [] type = "LOAD" -> MemoryAt(mem, rs.A + rs.Vk)
      [] OTHER -> rs.Vj

\* Faulty variant of ResultData: a STORE puts its base register on the bus.
ResultDataStoreBase(type, rs, mem) ==
    CASE type = "ADD" -> rs.Vj + rs.Vk
      [] type = "SUB" -> rs.Vj - rs.Vk
      [] type = "MUL" -> rs.Vj * rs.Vk
      [] type = "DIV" -> IF rs.Vk # 0 THEN CDiv(rs.Vj, rs.Vk) ELSE 0
      [] type = "LOAD" -> IF InRange(rs.A + rs.Vk)
                          THEN MemoryAt(mem, rs.A + rs.Vk)
                          ELSE 0
      [] OTHER -> rs.Vk

\* Faulty variant of ResultData: SUB subtracts the wrong way round.
ResultDataSubSwapped(type, rs, mem) ==
    CASE type = "ADD" -> rs.Vj + rs.Vk
      [] type = "SUB" -> rs.Vk - rs.Vj
      [] type = "MUL" -> rs.Vj * rs.Vk
      [] type = "DIV" -> IF rs.Vk # 0 THEN CDiv(rs.Vj, rs.Vk) ELSE 0
      [] type = "LOAD" -> IF InRange(rs.A + rs.Vk)
                          THEN MemoryAt(mem, rs.A + rs.Vk)
                          ELSE 0
      [] OTHER -> rs.Vj

\* Faulty variant of ResultData: MUL adds.
ResultDataMulAsAdd(type, rs, mem) ==
    CASE type = "ADD" -> rs.Vj + rs.Vk
      [] type = "SUB" -> rs.Vj - rs.Vk
      [] type = "MUL" -> rs.Vj + rs.Vk
      [] type = "DIV" -> IF rs.Vk # 0 THEN CDiv(rs.Vj, rs.Vk) ELSE 0
      [] type = "LOAD" -> IF InRange(rs.A + rs.Vk)
                          THEN MemoryAt(mem, rs.A + rs.Vk)
                          ELSE 0
      [] OTHER -> rs.Vj

\* The switch of processWriteBack: the value put on the CDB.
ResultData(type, rs, mem) ==
    CASE type = "ADD" -> rs.Vj + rs.Vk
      [] type = "SUB" -> rs.Vj - rs.Vk
      [] type = "MUL" -> rs.Vj * rs.Vk
      [] type = "DIV" -> IF rs.Vk # 0 THEN CDiv(rs.Vj, rs.Vk) ELSE 0
      [] type = "LOAD" -> IF InRange(EffectiveAddr(rs))
                          THEN MemoryAt(mem, EffectiveAddr(rs))
                          ELSE 0
      [] OTHER -> rs.Vj   \* STORE

\* The ROB entry of the instruction that writes its result.
WriteBackEntry(entry, type, rs, result) ==
    LET withAddr == IF type \in {"LOAD", "STORE"}
                    THEN [entry EXCEPT !.address = EffectiveAddr(rs)]
                    ELSE entry
    IN  IF withAddr.busy
        THEN [withAddr EXCEPT !.value = result, !.valueReady = TRUE,
                              !.state = "ROB_WRITERESULT"]
        ELSE withAddr

\* Faulty variant of ReceiveBroadcast: a matching Qj is cleared but the value
\* is not copied into Vj.
ReceiveBroadcastTagOnly(rs, tag, val) ==
    IF rs.busy
    THEN LET j == IF rs.Qj = tag THEN [rs EXCEPT !.Qj = ""] ELSE rs
         IN  IF j.Qk = tag THEN [j EXCEPT !.Vk = val, !.Qk = ""] ELSE j
    ELSE rs

\* Faulty variant of ReceiveBroadcast: the value is copied but the tag is
\* left in place.
ReceiveBroadcastKeepsTag(rs, tag, val) ==
    IF rs.busy
    THEN LET j == IF rs.Qj = tag THEN [rs EXCEPT !.Vj = val] ELSE rs
         IN  IF j.Qk = tag THEN [j EXCEPT !.Vk = val] ELSE j
    ELSE rs

\* updateDependentRS on one station.
ReceiveBroadcast(rs, tag, val) ==
    IF rs.busy
    THEN LET j == IF rs.Qj = tag THEN [rs EXCEPT !.Vj = val, !.Qj = ""] ELSE rs
         IN  IF j.Qk = tag THEN [j EXCEPT !.Vk = val, !.Qk = ""] ELSE j
    ELSE rs

\* updateDependentRS on one group.
UpdateDependentArray(arr, tag, val) ==
    [i \in DOMAIN arr |-> ReceiveBroadcast(arr[i], tag, val)]

\* The ROB slots of the STOREs whose data operand waits for tag.
StoreDataTargets(tag) ==
    UNION {{stoi(RSArray(RSTypes[t])[i].destRobIndex) :
               i \in {k \in DOMAIN RSArray(RSTypes[t]) :
                        /\ RSArray(RSTypes[t])[k].busy
                        /\ RSArray(RSTypes[t])[k].Qj = tag
                        /\ RSArray(RSTypes[t])[k].op = "STORE"}} : t \in 1..4}

\* Faulty variant of UpdateDependentROB: the STORE's entry is marked ready but
\* the value is not copied into it.
UpdateDependentROBReadyOnly(r, tag, val) ==
    [i \in DOMAIN r |->
        IF i \in StoreDataTargets(tag) /\ r[i].busy
        THEN [r[i] EXCEPT !.valueReady = TRUE]
        ELSE r[i]]

\* updateDependentRS on the ROB: a STORE's data goes to its own entry.
UpdateDependentROB(r, tag, val) ==
    [i \in DOMAIN r |->
        IF i \in StoreDataTargets(tag) /\ r[i].busy
        THEN [r[i] EXCEPT !.value = val, !.valueReady = TRUE]
        ELSE r[i]]

\* Faulty variant of ReleaseRS: the operands are cleared but the station
\* stays busy with its instruction.
ReleaseRSKeepsBusy(rs) ==
    [rs EXCEPT !.Qj = "", !.Qk = "", !.Vj = 0, !.Vk = 0, !.A = 0]

\* The end of processWriteBack: the station is freed (op is left as it was).
ReleaseRS(rs) ==
    [rs EXCEPT !.busy = FALSE, !.instructionIndex = -1, !.Qj = "", !.Qk = "",
               !.Vj = 0, !.Vk = 0, !.A = 0, !.destRobIndex = ""]

\* Faulty variant of WriteBackArray: the station found receives the broadcast
\* like the others and is not released.
WriteBackArrayKeepsStation(t, found, broadcast, tag, val) ==
    IF broadcast THEN UpdateDependentArray(RSArray(t), tag, val) ELSE RSArray(t)

\* A group after the write-back of the station found (group rsType, index
\* rsIndex); broadcast says whether updateDependentRS ran.
WriteBackArray(t, found, broadcast, tag, val) ==
    LET upd == IF broadcast THEN UpdateDependentArray(RSArray(t), tag, val)
               ELSE RSArray(t)
    IN  IF t = found.rsType
        THEN [upd EXCEPT ![found.rsIndex] = ReleaseRS(@)]
        ELSE upd

processWriteBack ==
    /\ pc = "writeback"
    /\ pc' = "issue"
    /\ IF completedForCDB = << >>
       THEN UNCHANGED << instructions, completedForCDB, rob, addRS, mulRS, loadRS,
                         storeRS >>
       ELSE LET originalInstIndex == Head(completedForCDB)
                found == FindRSOf(originalInstIndex)
            IN  /\ completedForCDB' = Tail(completedForCDB)
                /\ instructions' = [instructions EXCEPT
                                       ![originalInstIndex].writeResult = cycle]
                /\ IF found.rsIndex = -1
                      \/ RSArray(found.rsType)[found.rsIndex].destRobIndex = ""
                   THEN UNCHANGED << rob, addRS, mulRS, loadRS, storeRS >>
                   ELSE LET rs == RSArray(found.rsType)[found.rsIndex]
                            producingRobIdx == stoi(rs.destRobIndex)
                            type == instructions[originalInstIndex].type
                            resultData == ResultData(type, rs, memory)
                            broadcast == rob[producingRobIdx].busy
                            tag == to_string(producingRobIdx)
                            written == [rob EXCEPT ![producingRobIdx] =
                                           WriteBackEntry(@, type, rs, resultData)]
                        IN  /\ rob' = IF broadcast
                                      THEN UpdateDependentROB(written, tag, resultData)
                                      ELSE written
                            /\ addRS' = WriteBackArray("ADD", found, broadcast, tag, resultData)
                            /\ mulRS' = WriteBackArray("MUL", found, broadcast, tag, resultData)
                            /\ loadRS' = WriteBackArray("LOAD", found, broadcast, tag, resultData)
                            /\ storeRS' = WriteBackArray("STORE", found, broadcast, tag, resultData)
    /\ UNCHANGED << registers, regStatus, memory, cycle, nextInstructionIndex,
                    robHead, robTail, robEntriesAvailable, ROB_SIZE,
                    executingInstructions >>

(***************************************************************************)
(* issueInstruction.                                                       *)
(***************************************************************************)
\* The group findFreeRS searches for an instruction type.
RSGroupOf(type) ==
    CASE type \in {"ADD", "SUB"} -> "ADD"
      [] type \in {"MUL", "DIV"} -> "MUL"
      [] type = "LOAD" -> "LOAD"
      [] type = "STORE" -> "STORE"
      [] OTHER -> ""

\* Faulty variant of findFreeRS: only station 0 of the group is looked at.
findFreeRSFirstOnly(type) ==
    IF RSGroupOf(type) = "" \/ RSArray(RSGroupOf(type))[0].busy
    THEN [rsType |-> "", rsIndex |-> -1]
    ELSE [rsType |-> RSGroupOf(type), rsIndex |-> 0]

\* findFreeRS: the first free station of the group, or -1.
findFreeRS(type) ==
    IF RSGroupOf(type) = ""
    THEN [rsType |-> "", rsIndex |-> -1]
    ELSE LET arr == RSArray(RSGroupOf(type))
             S == {i \in DOMAIN arr : ~arr[i].busy}
         IN  IF S = {} THEN [rsType |-> "", rsIndex |-> -1]
             ELSE [rsType |-> RSGroupOf(type), rsIndex |-> MinOf(S)]

\* Faulty variant of CanIssue: a full ROB does not stall Issue.
CanIssueIntoFullROB ==
    /\ nextInstructionIndex < NumInstructions
    /\ findFreeRS(instructions[nextInstructionIndex].type).rsIndex # -1

\* Issue stalls: no instruction left, ROB full, or no free station.
CanIssue ==
    /\ ~(nextInstructionIndex >= NumInstructions \/ robEntriesAvailable = 0)
    /\ findFreeRS(instructions[nextInstructionIndex].type).rsIndex # -1

\* The ROB entry allocated at the tail.
AllocatedEntry(inst, idx) ==
    [busy |-> TRUE, instructionIndex |-> idx, type |-> inst.type,
     state |-> "ROB_ISSUE",
     destinationRegister |-> IF inst.type # "STORE" THEN inst.dest ELSE "",
     value |-> 0, address |-> 0, valueReady |-> FALSE]

\* Faulty variant of CaptureOperand: a busy register always gives a tag, the
\* ROB is not looked at.
CaptureOperandAlwaysTag(reg, oldV, status, regs, r) ==
    IF reg = ""
    THEN [V |-> 0, Q |-> ""]
    ELSE IF status[reg].busy
         THEN [V |-> oldV, Q |-> to_string(status[reg].robIndex)]
         ELSE [V |-> regs[reg], Q |-> ""]

\* Operand capture for source register reg: the value and the tag the station
\* gets.  oldV is what the station's V field held (a tag leaves V as it was).
CaptureOperand(reg, oldV, status, regs, r) ==
    IF reg = ""
    THEN [V |-> 0, Q |-> ""]
    ELSE IF status[reg].busy
         THEN LET producingRobIdx == status[reg].robIndex
              IN  IF /\ r[producingRobIdx].busy
                     /\ r[producingRobIdx].state = "ROB_WRITERESULT"
                     /\ r[producingRobIdx].valueReady
                  THEN [V |-> r[producingRobIdx].value, Q |-> ""]
                  ELSE [V |-> oldV, Q |-> to_string(producingRobIdx)]
         ELSE [V |-> regs[reg], Q |-> ""]

\* Faulty variant of IssuedRS: the operands are captured after the destination
\* register has been renamed, so an instruction that reads its own destination
\* waits on its own ROB slot.
IssuedRSAfterRename(old, inst, idx, currentRobIdx, status, regs, r) ==
    LET renamed == IF inst.type # "STORE"
                   THEN [status EXCEPT ![inst.dest] =
                            [busy |-> TRUE, robIndex |-> currentRobIdx]]
                   ELSE status
        j == IF inst.type = "LOAD"
             THEN [V |-> 0, Q |-> ""]
             ELSE CaptureOperand(inst.src1, old.Vj, renamed, regs, r)
        k == CaptureOperand(inst.src2, old.Vk, renamed, regs, r)
    IN  [busy |-> TRUE, op |-> inst.type, Vj |-> j.V, Vk |-> k.V, Qj |-> j.Q,
         Qk |-> k.Q, destRobIndex |-> to_string(currentRobIdx),
         A |-> CASE inst.type = "LOAD" -> atoi(inst.src1)
                 [] inst.type = "STORE" -> atoi(inst.dest)
                 [] OTHER -> old.A,
         instructionIndex |-> idx]

\* Faulty variant of IssuedRS: the station is linked to the ROB head instead
\* of the slot allocated at the tail.
IssuedRSLinksHead(old, inst, idx, currentRobIdx, status, regs, r) ==
    LET j == IF inst.type = "LOAD"
             THEN [V |-> 0, Q |-> ""]
             ELSE CaptureOperand(inst.src1, old.Vj, status, regs, r)
        k == CaptureOperand(inst.src2, old.Vk, status, regs, r)
    IN  [busy |-> TRUE, op |-> inst.type, Vj |-> j.V, Vk |-> k.V, Qj |-> j.Q,
         Qk |-> k.Q, destRobIndex |-> to_string(robHead),
         A |-> CASE inst.type = "LOAD" -> atoi(inst.src1)
                 [] inst.type = "STORE" -> atoi(inst.dest)
                 [] OTHER -> old.A,
         instructionIndex |-> idx]

\* The station as issueInstruction fills it for instruction inst (index idx),
\* whose ROB slot is currentRobIdx; r is the ROB after the allocation.
IssuedRS(old, inst, idx, currentRobIdx, status, regs, r) ==
    LET j == IF inst.type = "LOAD"
             THEN [V |-> 0, Q |-> ""]
             ELSE CaptureOperand(inst.src1, old.Vj, status, regs, r)
        k == CaptureOperand(inst.src2, old.Vk, status, regs, r)
    IN  [busy |-> TRUE, op |-> inst.type, Vj |-> j.V, Vk |-> k.V, Qj |-> j.Q,
         Qk |-> k.Q, destRobIndex |-> to_string(currentRobIdx),
         A |-> CASE inst.type = "LOAD" -> atoi(inst.src1)
                 [] inst.type = "STORE" -> atoi(inst.dest)
                 [] OTHER -> old.A,
         instructionIndex |-> idx]

\* Faulty variant of IssuedEntry: the data known at Issue is not put in the
\* STORE's ROB entry.
IssuedEntryWithoutData(entry, rs) == entry

\* A STORE whose data is known at Issue puts it in its ROB entry.
IssuedEntry(entry, rs) ==
    IF rs.op = "STORE" /\ rs.Qj = ""
    THEN [entry EXCEPT !.value = rs.Vj, !.valueReady = TRUE]
    ELSE entry

\* Faulty variant of Rename: a register that is already renamed keeps its
\* older mapping.
RenameKeepsOlder(status, inst, currentRobIdx) ==
    IF inst.type # "STORE" /\ ~status[inst.dest].busy
    THEN [status EXCEPT ![inst.dest] = [busy |-> TRUE, robIndex |-> currentRobIdx]]
    ELSE status

\* Renaming: the destination register names the new ROB slot.
Rename(status, inst, currentRobIdx) ==
    IF inst.type # "STORE"
    THEN [status EXCEPT ![inst.dest] = [busy |-> TRUE, robIndex |-> currentRobIdx]]
    ELSE status

\* Faulty variant of NextTail: the tail stays where it is.
NextTailStays(t) == t

\* Faulty variant of NextTail: the tail skips a slot.
NextTailSkips(t) == (t + 2) % ROB_SIZE

\* The tail pointer after an allocation.
NextTail(t) == (t + 1) % ROB_SIZE

issueInstruction ==
    /\ pc = "issue"
    /\ pc' = "start"
    /\ IF CanIssue
       THEN LET inst == instructions[nextInstructionIndex]
                rsInfo == findFreeRS(inst.type)
                currentRobIdx == robTail
                allocated == [rob EXCEPT ![currentRobIdx] =
                                 AllocatedEntry(inst, nextInstructionIndex)]
                rs == IssuedRS(RSArray(rsInfo.rsType)[rsInfo.rsIndex], inst,
                               nextInstructionIndex, currentRobIdx, regStatus,
                               registers, allocated)
                put(t) == IF t = rsInfo.rsType
                          THEN [RSArray(t) EXCEPT ![rsInfo.rsIndex] = rs]
                          ELSE RSArray(t)
            IN  /\ rob' = [allocated EXCEPT ![currentRobIdx] = IssuedEntry(@, rs)]
                /\ robTail' = NextTail(robTail)
                /\ robEntriesAvailable' = robEntriesAvailable - 1
                /\ instructions' = [instructions EXCEPT
                                       ![nextInstructionIndex].issue = cycle]
                /\ addRS' = put("ADD")
                /\ mulRS' = put("MUL")
                /\ loadRS' = put("LOAD")
                /\ storeRS' = put("STORE")
                /\ regStatus' = Rename(regStatus, inst, currentRobIdx)
                /\ nextInstructionIndex' = nextInstructionIndex + 1
       ELSE UNCHANGED << rob, robTail, robEntriesAvailable, instructions, addRS,
                         mulRS, loadRS, storeRS, regStatus, nextInstructionIndex >>
    /\ UNCHANGED << registers, memory, cycle, robHead, ROB_SIZE,
                    executingInstructions, completedForCDB >>

(***************************************************************************)
(* startExecution.                                                         *)
(***************************************************************************)
\* Every station, in the order the two loops of startExecution visit them.
StationsOf(t) ==
    [i \in 1..Cardinality(DOMAIN RSArray(t)) |-> [rsType |-> t, rsIndex |-> i - 1]]

Stations == StationsOf("ADD") \o StationsOf("MUL") \o StationsOf("LOAD") \o StationsOf("STORE")

\* The station has all its operands.
OperandsReady(rs) == rs.busy /\ rs.Qj = "" /\ rs.Qk = ""

\* The FU tracker already holds a record of station s.
AlreadyExecuting(execs, s) ==
    \E n \in 1..Len(execs) : execs[n].rsType = s.rsType /\ execs[n].rsIndex = s.rsIndex

\* Faulty variant of LatencyOf: a division takes 60 cycles.
LatencyOfSlowDiv(rsType, op) ==
    CASE rsType = "MUL" -> IF op = "MUL" THEN MUL_LATENCY ELSE DIV_LATENCY + 20
      [] rsType = "ADD" -> ADD_LATENCY
      [] rsType = "LOAD" -> LOAD_LATENCY
      [] OTHER -> STORE_LATENCY

\* The initial counter of a record.
LatencyOf(rsType, op) ==
    CASE rsType = "MUL" -> IF op = "MUL" THEN MUL_LATENCY ELSE DIV_LATENCY
      [] rsType = "ADD" -> ADD_LATENCY
      [] rsType = "LOAD" -> LOAD_LATENCY
      [] OTHER -> STORE_LATENCY

\* The ROB entry of a station that starts execution.
StartedEntry(entry, rs) ==
    LET e == IF entry.busy /\ entry.state = "ROB_ISSUE"
             THEN [entry EXCEPT !.state = "ROB_EXECUTE"]
             ELSE entry
    IN  IF rs.op = "STORE" /\ e.busy /\ ~e.valueReady
        THEN [e EXCEPT !.value = rs.Vj, !.valueReady = TRUE]
        ELSE e

\* Variant of Dispatches with memory ordering: a LOAD is held back while an
\* older STORE occupies a station.
DispatchesLoadsInOrder(execs, s) ==
    /\ OperandsReady(RSArray(s.rsType)[s.rsIndex])
    /\ ~AlreadyExecuting(execs, s)
    /\ s.rsType = "LOAD" =>
          \A k \in DOMAIN storeRS :
              ~(storeRS[k].busy /\ storeRS[k].instructionIndex
                                     < loadRS[s.rsIndex].instructionIndex)

\* The station is dispatched by startExecution, given the tracker execs.
Dispatches(execs, s) ==
    OperandsReady(RSArray(s.rsType)[s.rsIndex]) /\ ~AlreadyExecuting(execs, s)

\* The loops of startExecution from station number k on: the FU tracker and
\* the ROB they leave.
RECURSIVE StartFrom(_, _, _)
StartFrom(k, execs, r) ==
    IF k > Len(Stations)
    THEN [execs |-> execs, rob |-> r]
    ELSE LET s == Stations[k]
             rs == RSArray(s.rsType)[s.rsIndex]
         IN  IF Dispatches(execs, s)
             THEN StartFrom(k + 1,
                            Append(execs, [rsIndex |-> s.rsIndex, rsType |-> s.rsType,
                                           remainingCycles |-> LatencyOf(s.rsType, rs.op),
                                           instructionIndex |-> rs.instructionIndex]),
                            [r EXCEPT ![stoi(rs.destRobIndex)] = StartedEntry(@, rs)])
             ELSE StartFrom(k + 1, execs, r)

startExecution ==
    /\ pc = "start"
    /\ pc' = "advance"
    /\ LET after == StartFrom(1, executingInstructions, rob)
       IN  /\ executingInstructions' = after.execs
           /\ rob' = after.rob
    /\ UNCHANGED << instructions, addRS, mulRS, loadRS, storeRS, registers,
                    regStatus, memory, cycle, nextInstructionIndex, robHead, robTail,
                    robEntriesAvailable, ROB_SIZE, completedForCDB >>

(***************************************************************************)
(* advanceExecution, and the end of stepSimulation (cycle++).              *)
(***************************************************************************)
\* A record after its counter is decremented.
Decremented(e) == [e EXCEPT !.remainingCycles = @ - 1]

\* The record finishes in this cycle.
Finishes(e) == Decremented(e).remainingCycles <= 0

\* The records that stay in the tracker, decremented, in their order.
RECURSIVE StillExecuting(_)
StillExecuting(execs) ==
    IF execs = << >> THEN << >>
    ELSE IF Finishes(Head(execs))
         THEN StillExecuting(Tail(execs))
         ELSE << Decremented(Head(execs)) >> \o StillExecuting(Tail(execs))

\* Faulty variant of FinishedNow: the records that finish are queued in the
\* reverse of their tracker order.
RECURSIVE FinishedNowReversed(_)
FinishedNowReversed(execs) ==
    IF execs = << >> THEN << >>
    ELSE IF Finishes(Head(execs))
         THEN FinishedNowReversed(Tail(execs)) \o << Head(execs).instructionIndex >>
         ELSE FinishedNowReversed(Tail(execs))

\* The instruction indices of the records that finish, in tracker order.
RECURSIVE FinishedNow(_)
FinishedNow(execs) ==
    IF execs = << >> THEN << >>
    ELSE IF Finishes(Head(execs))
         THEN << Head(execs).instructionIndex >> \o FinishedNow(Tail(execs))
         ELSE FinishedNow(Tail(execs))

advanceExecution ==
    /\ pc = "advance"
    /\ pc' = "commit"
    /\ executingInstructions' = StillExecuting(executingInstructions)
    /\ completedForCDB' = completedForCDB \o FinishedNow(executingInstructions)
    /\ instructions' =
          [i \in DOMAIN instructions |->
              IF \E n \in 1..Len(executingInstructions) :
                    /\ executingInstructions[n].instructionIndex = i
                    /\ Finishes(executingInstructions[n])
              THEN [instructions[i] EXCEPT !.execComp = cycle]
              ELSE instructions[i]]
    /\ cycle' = cycle + 1
    /\ UNCHANGED << addRS, mulRS, loadRS, storeRS, rob, registers, regStatus, memory,
                    nextInstructionIndex, robHead, robTail, robEntriesAvailable,
                    ROB_SIZE >>

(***************************************************************************)
(* stepSimulation: Commit, Write-Result, Issue, Execute-Start,             *)
(* Execute-Advance, in this order, while the simulation is not complete.   *)
(***************************************************************************)
Next ==
    \/ commitInstruction
    \/ processWriteBack
    \/ issueInstruction
    \/ startExecution
    \/ advanceExecution

Spec == Init /\ [][Next]_vars

\* The driver loop never stops calling stepSimulation before the done
\* predicate holds, and a call runs all its stages.
FairSpec == FairInit /\ [][Next]_vars /\ WF_vars(Next)

(***************************************************************************)
(* Observers used by the properties below.                                 *)
(***************************************************************************)
\* The program that was loaded: the instructions without their stamps.
Program ==
    [n \in 1..NumInstructions |->
        [instructions[n - 1] EXCEPT !.issue = -1, !.execComp = -1,
                                    !.writeResult = -1, !.commitCycle = -1]]

\* The simulator was constructed with the default arguments.
IsDefaultConfig ==
    /\ ROB_SIZE = DefaultConfig.rob_s
    /\ Cardinality(DOMAIN addRS) = DefaultConfig.addRSCount
    /\ Cardinality(DOMAIN mulRS) = DefaultConfig.mulRSCount
    /\ Cardinality(DOMAIN loadRS) = DefaultConfig.loadRSCount
    /\ Cardinality(DOMAIN storeRS) = DefaultConfig.storeRSCount

Committed(i) == instructions[i].commitCycle # -1

\* The state at the start of a cycle (between two calls of stepSimulation).
CycleBoundary == pc = "commit"

\* The words of memory in which two memories differ.
ChangedWords(m1, m2) ==
    {a \in (DOMAIN m1) \cup (DOMAIN m2) : MemoryAt(m1, a) # MemoryAt(m2, a)}

\* The registers in which two register files differ.
ChangedRegisters(r1, r2) == {r \in RegNames : r1[r] # r2[r]}

(***************************************************************************)
(* Reference semantics: the instructions executed one at a time in program *)
(* order from the initial state.  loadAfterStore records that a LOAD read  *)
(* the address of an older STORE; error that a division by zero or an      *)
(* address out of range occurred.                                          *)
(***************************************************************************)
SeqInit ==
    [regs |-> [r \in RegNames |-> INITIAL_REGISTER_VALUE], mem |-> << >>,
     stored |-> {}, loadAfterStore |-> FALSE, error |-> FALSE]

SeqStep(st, inst) ==
    CASE inst.type = "ADD" ->
            [st EXCEPT !.regs[inst.dest] = st.regs[inst.src1] + st.regs[inst.src2]]
      [] inst.type = "SUB" ->
            [st EXCEPT !.regs[inst.dest] = st.regs[inst.src1] - st.regs[inst.src2]]
      [] inst.type = "MUL" ->
            [st EXCEPT !.regs[inst.dest] = st.regs[inst.src1] * st.regs[inst.src2]]
      [] inst.type = "DIV" ->
            IF st.regs[inst.src2] = 0
            THEN [st EXCEPT !.regs[inst.dest] = 0, !.error = TRUE]
            ELSE [st EXCEPT !.regs[inst.dest] =
                               CDiv(st.regs[inst.src1], st.regs[inst.src2])]
      [] inst.type = "LOAD" ->
            LET a == atoi(inst.src1) + st.regs[inst.src2]
            IN  IF InRange(a)
                THEN [st EXCEPT !.regs[inst.dest] = MemoryAt(st.mem, a),
                                !.loadAfterStore = @ \/ a \in st.stored]
                ELSE [st EXCEPT !.regs[inst.dest] = 0, !.error = TRUE]
      [] OTHER ->
            LET a == atoi(inst.dest) + st.regs[inst.src2]
            IN  IF InRange(a)
                THEN [st EXCEPT !.mem = MemoryWrite(st.mem, a, st.regs[inst.src1]),
                                !.stored = @ \cup {a}]
                ELSE [st EXCEPT !.error = TRUE]

RECURSIVE SeqRun(_, _)
SeqRun(prog, n) == IF n = 0 THEN SeqInit ELSE SeqStep(SeqRun(prog, n - 1), prog[n])

SeqFinal == SeqRun(Program, NumInstructions)

(***************************************************************************)
(* C1.  Instructions commit strictly in program order and at most one per  *)
(* cycle: an instruction is committed only after every older one, in a     *)
(* later cycle than each of them, and a step stamps a commit only in the   *)
(* Commit stage, for the instruction in the ROB head, which has written    *)
(* its result.                                                             *)
(***************************************************************************)
CommitOrder ==
    \A i, j \in DOMAIN instructions :
        (i < j /\ Committed(j)) =>
            /\ Committed(i)
            /\ instructions[i].commitCycle < instructions[j].commitCycle

CommitOnlyHead ==
    \A i \in DOMAIN instructions :
        instructions'[i].commitCycle # instructions[i].commitCycle =>
            /\ pc = "commit"
            /\ rob[robHead].busy
            /\ rob[robHead].instructionIndex = i
            /\ rob[robHead].state = "ROB_WRITERESULT"
            /\ instructions[i].commitCycle = -1
            /\ instructions'[i].commitCycle = cycle

\* C1: commits happen in program order, one per cycle, only from the ROB head.
C1_InOrderCommit == [](CommitOrder) /\ [][CommitOnlyHead]_vars

\* A younger instruction has written its result while the head has not, and
\* it is still in the ROB.
C1_Witness ==
    /\ robEntriesAvailable # ROB_SIZE
    /\ rob[robHead].busy
    /\ rob[robHead].state # "ROB_WRITERESULT"
    /\ \E p \in DOMAIN rob :
          /\ p # robHead
          /\ rob[p].busy
          /\ rob[p].state = "ROB_WRITERESULT"
          /\ ~Committed(rob[p].instructionIndex)

(***************************************************************************)
(* C2.  Sequential equivalence: when the simulation is complete and no     *)
(* LOAD read the address of an older STORE, the register file and the      *)
(* memory are those of the program executed one instruction at a time in   *)
(* program order (DIV by zero gives 0, a LOAD out of range gives 0, a      *)
(* STORE out of range writes nothing).                                     *)
(***************************************************************************)
C2_SequentialEquivalence ==
    (isSimulationComplete /\ ~SeqFinal.loadAfterStore) =>
        /\ registers = SeqFinal.regs
        /\ ChangedWords(memory, SeqFinal.mem) = {}

\* A completed program with a register written twice (WAW), a reader of a
\* register an older instruction writes (RAW), and a STORE that wrote.
C2_Witness ==
    /\ isSimulationComplete
    /\ ~SeqFinal.loadAfterStore
    /\ \E i, j \in DOMAIN instructions :
          /\ i < j
          /\ instructions[i].type \in {"ADD", "SUB", "MUL", "DIV", "LOAD"}
          /\ instructions[j].type \in {"ADD", "SUB", "MUL", "DIV", "LOAD"}
          /\ instructions[i].dest = instructions[j].dest
          /\ instructions[j].src2 = instructions[i].dest
    /\ \E a \in DOMAIN memory : memory[a] # a

(***************************************************************************)
(* C3.  Architectural state is written only by Commit.  The other four     *)
(* stages leave the register file and the memory unchanged; the Commit     *)
(* stage changes at most one register or one memory word: a register only  *)
(* if the head is not a STORE, and then the head's destination register;   *)
(* a memory word only if the head is a STORE, and then the word at the     *)
(* head's address.  A register no instruction writes keeps its initial     *)
(* value, and a program without STORE leaves every memory word as it was.  *)
(***************************************************************************)
FrameStep ==
    /\ pc # "commit" => registers' = registers /\ memory' = memory
    /\ pc = "commit" =>
          LET head == rob[robHead]
              regsChanged == ChangedRegisters(registers', registers)
              wordsChanged == ChangedWords(memory', memory)
          IN  /\ Cardinality(regsChanged) + Cardinality(wordsChanged) <= 1
              /\ regsChanged # {} =>
                    /\ head.type # "STORE"
                    /\ regsChanged = {head.destinationRegister}
                    /\ instructions'[head.instructionIndex].commitCycle = cycle
              /\ wordsChanged # {} =>
                    /\ head.type = "STORE"
                    /\ wordsChanged = {head.address}
                    /\ instructions'[head.instructionIndex].commitCycle = cycle

UntargetedKeepInitial ==
    /\ \A r \in RegNames :
          (\A i \in DOMAIN instructions :
               instructions[i].type = "STORE" \/ instructions[i].dest # r)
          => registers[r] = INITIAL_REGISTER_VALUE
    /\ (\A i \in DOMAIN instructions : instructions[i].type # "STORE")
          => \A a \in DOMAIN memory : memory[a] = a

\* C3: only Commit writes registers and memory, one register or word per cycle.
C3_CommitOnlyWritesState == [](UntargetedKeepInitial) /\ [][FrameStep]_vars

\* Right after a Commit stage, a STORE has changed a memory word and an
\* older instruction a register.
C3_Witness ==
    /\ pc = "writeback"
    /\ \E a \in DOMAIN memory : memory[a] # a
    /\ \E r \in RegNames : registers[r] # INITIAL_REGISTER_VALUE
    /\ \E i \in DOMAIN instructions :
          instructions[i].type = "STORE" /\ instructions[i].commitCycle = cycle

(***************************************************************************)
(* C4.  Termination: for a program whose sequential execution has no       *)
(* division by zero and no address out of range, repeated stepping reaches *)
(* a state in which the done predicate holds, every instruction has been   *)
(* issued, has written its result and has committed, and the FU tracker    *)
(* and the CDB queue are empty.  (Checked under FairSpec.)                 *)
(***************************************************************************)
AllCompleted ==
    /\ isSimulationComplete
    /\ \A i \in DOMAIN instructions :
          /\ instructions[i].issue # -1
          /\ instructions[i].writeResult # -1
          /\ instructions[i].commitCycle # -1
    /\ executingInstructions = << >>
    /\ completedForCDB = << >>
    /\ robEntriesAvailable = ROB_SIZE

\* C4: an error-free program runs to completion.
C4_Termination == ~SeqFinal.error => <>AllCompleted

\* A three-instruction program without errors has run to completion.
C4_Witness == AllCompleted /\ ~SeqFinal.error /\ NumInstructions = 3 /\ cycle > 3

(***************************************************************************)
(* C5.  ADD F1,F2,F3 / SUB F4,F1,F5 / MUL F6,F4,F1 ends with F1 = 20,      *)
(* F4 = 10, F6 = 200 and every other register 10.                          *)
(***************************************************************************)
C5_Scenario1Final ==
    (Program = Scenario1 /\ isSimulationComplete) =>
        registers = [r \in RegNames |->
                        CASE r = "F1" -> 20
                          [] r = "F4" -> 10
                          [] r = "F6" -> 200
                          [] OTHER -> 10]

C5_Witness == Program = Scenario1 /\ isSimulationComplete /\ Committed(2)

(***************************************************************************)
(* C6.  For every instruction, at every cycle boundary, the stamps that    *)
(* are set satisfy issue <= executionComplete <= writeResult <= commit,    *)
(* and a later stamp is never set while an earlier one is unset.           *)
(***************************************************************************)
StampsOrdered(x) ==
    /\ x.execComp # -1 => (x.issue # -1 /\ x.issue <= x.execComp)
    /\ x.writeResult # -1 => (x.execComp # -1 /\ x.execComp <= x.writeResult)
    /\ x.commitCycle # -1 => (x.writeResult # -1 /\ x.writeResult <= x.commitCycle)

\* C6: issue <= executionComplete <= writeResult <= commit at every cycle boundary.
C6_StampOrder ==
    CycleBoundary => \A i \in DOMAIN instructions : StampsOrdered(instructions[i])

(***************************************************************************)
(* C7.  DIV F1,F2,F3 / ADD F4,F1,F5 / ADD F6,F2,F3 on the default machine: *)
(* the third instruction sits in an ADD station from its issue to its      *)
(* Write-Result, which comes before the DIV's; the second stays in an ADD  *)
(* station with Qj naming the DIV's ROB slot until the DIV's Write-Result; *)
(* the three commit in program order; at the end F1 = 1, F4 = 11, F6 = 20. *)
(***************************************************************************)
C7_OutOfOrderCompletion ==
    (Program = Scenario3 /\ IsDefaultConfig) =>
        LET div == instructions[0]
            add1 == instructions[1]
            add2 == instructions[2]
        IN  /\ div.writeResult # -1 =>
                  (add2.writeResult # -1 /\ add2.writeResult < div.writeResult)
            /\ (add2.issue # -1 /\ add2.writeResult = -1) =>
                  \E k \in DOMAIN addRS :
                      addRS[k].busy /\ addRS[k].instructionIndex = 2
            /\ (add1.issue # -1 /\ div.writeResult = -1) =>
                  \E k \in DOMAIN addRS, p \in DOMAIN rob :
                      /\ addRS[k].busy
                      /\ addRS[k].instructionIndex = 1
                      /\ rob[p].busy
                      /\ rob[p].instructionIndex = 0
                      /\ addRS[k].Qj = to_string(p)
            /\ Committed(1) => (Committed(0) /\ div.commitCycle < add1.commitCycle)
            /\ Committed(2) => (Committed(1) /\ add1.commitCycle < add2.commitCycle)
            /\ isSimulationComplete =>
                  /\ registers["F1"] = 1
                  /\ registers["F4"] = 11
                  /\ registers["F6"] = 20

\* The third instruction has written its result, the DIV has not, and the
\* second still waits for it.
C7_Witness ==
    /\ Program = Scenario3
    /\ IsDefaultConfig
    /\ instructions[2].writeResult # -1
    /\ instructions[0].writeResult = -1
    /\ \E k \in DOMAIN addRS :
          addRS[k].busy /\ addRS[k].instructionIndex = 1 /\ addRS[k].Qj # ""

(***************************************************************************)
(* C8.  A LOAD whose effective address offset + value(base) is in          *)
(* [0, 1024) gets, at its Write-Result, the memory word at that address as *)
(* its ROB value; the value is kept until Commit, which writes it to the   *)
(* destination register.  L.D F2,100(F0) / ADD F3,F2,F1 ends with          *)
(* F2 = 110 and F3 = 120.                                                  *)
(***************************************************************************)
LoadWriteResult ==
    (pc = "writeback" /\ completedForCDB # << >>) =>
        LET idx == Head(completedForCDB)
            inst == instructions[idx]
        IN  (inst.type = "LOAD" /\ inst.writeResult = -1) =>
                \E k \in DOMAIN loadRS, p \in DOMAIN rob :
                    /\ loadRS[k].busy
                    /\ loadRS[k].instructionIndex = idx
                    /\ loadRS[k].Qk = ""
                    /\ rob[p].busy
                    /\ rob[p].instructionIndex = idx
                    /\ LET a == atoi(inst.src1) + loadRS[k].Vk
                       IN  InRange(a) =>
                               /\ rob'[p].state = "ROB_WRITERESULT"
                               /\ rob'[p].address = a
                               /\ rob'[p].value = MemoryAt(memory, a)

LoadValueKept ==
    \A p \in DOMAIN rob :
        (/\ rob[p].busy
         /\ rob[p].type = "LOAD"
         /\ rob[p].state = "ROB_WRITERESULT"
         /\ rob'[p].busy)
        => (rob'[p].value = rob[p].value /\ rob'[p].state = "ROB_WRITERESULT")

LoadCommit ==
    \A i \in DOMAIN instructions :
        (/\ instructions[i].type = "LOAD"
         /\ instructions'[i].commitCycle # instructions[i].commitCycle)
        => /\ rob[robHead].instructionIndex = i
           /\ registers'[instructions[i].dest] = rob[robHead].value

Scenario4Final ==
    (Program = Scenario4 /\ isSimulationComplete) =>
        (registers["F2"] = 110 /\ registers["F3"] = 120)

\* C8: a LOAD commits the word its address held at its Write-Result.
C8_LoadReadsMemoryAtWriteResult ==
    /\ [][LoadWriteResult /\ LoadValueKept /\ LoadCommit]_vars
    /\ [](Scenario4Final)

\* The LOAD of the example has read memory[110] and waits for its Commit.
C8_Witness ==
    /\ Program = Scenario4
    /\ \E p \in DOMAIN rob :
          /\ rob[p].busy
          /\ rob[p].type = "LOAD"
          /\ rob[p].state = "ROB_WRITERESULT"
          /\ rob[p].address = 110
          /\ rob[p].value = 110

(***************************************************************************)
(* C9.  Load/store round trip: in a program made of a LOAD from an         *)
(* in-range address a and a STORE of the loaded register to an in-range    *)
(* address b # a, memory[b] = a and memory[a] is unchanged at the end.     *)
(***************************************************************************)
C9_LoadStoreRoundTrip ==
    (/\ isSimulationComplete
     /\ NumInstructions = 2
     /\ instructions[0].type = "LOAD"
     /\ instructions[1].type = "STORE"
     /\ instructions[1].src1 = instructions[0].dest) =>
        LET ld == instructions[0]
            st == instructions[1]
            a == atoi(ld.src1) + INITIAL_REGISTER_VALUE
            b == atoi(st.dest) + (IF st.src2 = ld.dest THEN a
                                  ELSE INITIAL_REGISTER_VALUE)
        IN  (InRange(a) /\ InRange(b) /\ b # a) =>
                (MemoryAt(memory, b) = a /\ MemoryAt(memory, a) = a)

\* The round trip in which the loaded value is also the STORE's base.
C9_Witness ==
    /\ Program = LoadThenStoreViaBase
    /\ isSimulationComplete
    /\ MemoryAt(memory, 115) = 110

(***************************************************************************)
(* C10.  ADD F1,F2,F3 / MUL F4,F1,F5 / S.D F4,0(F0).  As claimed: at the   *)
(* end memory[10] = 30, F1 = 20 and F4 = 30.                               *)
(***************************************************************************)
C10_Original ==
    (Program = Scenario6 /\ isSimulationComplete) =>
        /\ MemoryAt(memory, 10) = 30
        /\ registers["F1"] = 20
        /\ registers["F4"] = 30

(***************************************************************************)
(* C10, amended.  MUL multiplies: at the end memory[10] = 200, F1 = 20 and *)
(* F4 = 200.                                                               *)
(***************************************************************************)
C10_Amended ==
    (Program = Scenario6 /\ isSimulationComplete) =>
        /\ MemoryAt(memory, 10) = 200
        /\ registers["F1"] = 20
        /\ registers["F4"] = 200

C10_Witness ==
    /\ Program = Scenario6
    /\ isSimulationComplete
    /\ instructions[2].commitCycle # -1
    /\ 10 \in DOMAIN memory

(***************************************************************************)
(* Observers of the data dependencies of a program.                        *)
(***************************************************************************)
MaxOf(S) == CHOOSE x \in S : \A y \in S : x >= y

\* The instructions older than i that write register reg.
Writers(reg, i) ==
    {j \in DOMAIN instructions :
        j < i /\ instructions[j].type # "STORE" /\ instructions[j].dest = reg}

\* The youngest instruction older than i that writes register reg, or -1.
Producer(reg, i) == IF Writers(reg, i) = {} THEN -1 ELSE MaxOf(Writers(reg, i))

\* Instruction i (a STORE) was issued while the producer of its data register
\* was in the ROB.
DataInFlightAtIssue(i) ==
    LET j == Producer(instructions[i].src1, i)
    IN  /\ j # -1
        /\ instructions[i].issue # -1
        /\ (~Committed(j) \/ instructions[j].commitCycle > instructions[i].issue)

(***************************************************************************)
(* C11.  A STORE issued while its data register has an in-flight writer    *)
(* does not become ready to commit before the writer has written its       *)
(* result: until then its ROB entry has no value, stays Issued and its     *)
(* station waits on the writer's ROB tag; from the writer's Write-Result   *)
(* on the entry holds the writer's value.  When the STORE commits, the     *)
(* writer has committed and the memory word at the STORE's address         *)
(* receives that value (the one the writer left in the data register).     *)
(* No instruction commits while the head is a STORE without its value.     *)
(***************************************************************************)
StoreWaitsForData ==
    \A p \in DOMAIN rob :
        (rob[p].busy /\ rob[p].type = "STORE") =>
            LET i == rob[p].instructionIndex
                j == Producer(instructions[i].src1, i)
            IN  /\ rob[p].state = "ROB_WRITERESULT" => rob[p].valueReady
                /\ (DataInFlightAtIssue(i) /\ ~Committed(j)) =>
                      \E q \in DOMAIN rob :
                          /\ rob[q].busy
                          /\ rob[q].instructionIndex = j
                          /\ IF rob[q].state = "ROB_WRITERESULT"
                             THEN rob[p].valueReady /\ rob[p].value = rob[q].value
                             ELSE /\ ~rob[p].valueReady
                                  /\ rob[p].state = "ROB_ISSUE"
                                  /\ \E k \in DOMAIN storeRS :
                                        /\ storeRS[k].busy
                                        /\ storeRS[k].instructionIndex = i
                                        /\ storeRS[k].Qj = to_string(q)
                /\ (DataInFlightAtIssue(i) /\ Committed(j)) =>
                      (rob[p].valueReady /\ rob[p].value = registers[instructions[i].src1])

StoreCommitsProducerResult ==
    /\ (pc = "commit" /\ rob[robHead].busy /\ rob[robHead].type = "STORE"
           /\ ~rob[robHead].valueReady) => instructions' = instructions
    /\ \A i \in DOMAIN instructions :
          (/\ instructions[i].type = "STORE"
           /\ instructions'[i].commitCycle # instructions[i].commitCycle
           /\ DataInFlightAtIssue(i)) =>
              /\ rob[robHead].instructionIndex = i
              /\ rob[robHead].valueReady
              /\ Committed(Producer(instructions[i].src1, i))
              /\ rob[robHead].value = registers[instructions[i].src1]
              /\ InRange(rob[robHead].address) =>
                    MemoryAt(memory', rob[robHead].address) = rob[robHead].value

\* C11: a STORE whose data is in flight at Issue commits its producer's result.
C11_StoreWaitsForProducer ==
    [](StoreWaitsForData) /\ [][StoreCommitsProducerResult]_vars

\* MUL F1,F2,F3 / S.D F1,5(F0) / ...: the STORE was issued before the MUL
\* committed and has stored the product.
C11_Witness ==
    /\ Program = LateStoreThenLoad
    /\ isSimulationComplete
    /\ instructions[1].issue < instructions[0].commitCycle
    /\ MemoryAt(memory, 15) = 100

(***************************************************************************)
(* C12.  A STORE whose data register has no in-flight writer at Issue      *)
(* takes the register's value into its ROB entry at Issue, keeps it, and   *)
(* at Commit writes it to memory[offset + value(base)] when that address   *)
(* is in range.  S.D F2,50(F0) / L.D F3,50(F0): both commit and the final  *)
(* memory[60] is 10.                                                       *)
(***************************************************************************)
StoreTakesDataAtIssue ==
    (/\ pc = "issue"
     /\ CanIssue
     /\ instructions[nextInstructionIndex].type = "STORE"
     /\ ~regStatus[instructions[nextInstructionIndex].src1].busy) =>
        /\ rob'[robTail].instructionIndex = nextInstructionIndex
        /\ rob'[robTail].valueReady
        /\ rob'[robTail].value = registers[instructions[nextInstructionIndex].src1]
        /\ LET j == Producer(instructions[nextInstructionIndex].src1,
                              nextInstructionIndex)
           IN  j = -1 \/ (Committed(j) /\ instructions[j].commitCycle <= cycle)
        /\ instructions'[nextInstructionIndex].issue = cycle

StoreKeepsIssueData ==
    \A p \in DOMAIN rob :
        (/\ rob[p].busy
         /\ rob[p].type = "STORE"
         /\ ~DataInFlightAtIssue(rob[p].instructionIndex)) =>
            /\ rob[p].valueReady
            /\ rob[p].value = registers[instructions[rob[p].instructionIndex].src1]

StoreCommitsIssueData ==
    \A i \in DOMAIN instructions :
        (/\ instructions[i].type = "STORE"
         /\ instructions'[i].commitCycle # instructions[i].commitCycle
         /\ ~DataInFlightAtIssue(i)) =>
            LET a == atoi(instructions[i].dest) + registers[instructions[i].src2]
            IN  /\ rob[robHead].instructionIndex = i
                /\ rob[robHead].address = a
                /\ registers' = registers
                /\ IF InRange(a)
                   THEN /\ MemoryAt(memory', a) = registers[instructions[i].src1]
                        /\ ChangedWords(memory', memory) \subseteq {a}
                   ELSE memory' = memory

Scenario5Final ==
    (Program = Scenario5 /\ isSimulationComplete) =>
        /\ Committed(0)
        /\ Committed(1)
        /\ MemoryAt(memory, 60) = 10

\* C12: a STORE whose data is available at Issue stores the value read at Issue.
C12_StoreDataAtIssue ==
    /\ [][StoreTakesDataAtIssue /\ StoreCommitsIssueData]_vars
    /\ [](StoreKeepsIssueData /\ Scenario5Final)

\* The example has run to completion and its STORE has written memory[60].
C12_Witness ==
    /\ Program = Scenario5
    /\ isSimulationComplete
    /\ 60 \in DOMAIN memory
    /\ memory[60] = 10

(***************************************************************************)
(* C13.  Loads are not ordered against older in-flight stores.  In         *)
(* MUL F1,F2,F3 / S.D F1,5(F0) / L.D F2,5(F0) the STORE waits for the      *)
(* product; on the default machine the LOAD of the same address, 15,       *)
(* writes its result before the STORE commits, and whenever it does so it  *)
(* commits the word memory[15] held before the STORE, 15, to F2, while     *)
(* memory[15] ends as the product, 100.                                    *)
(***************************************************************************)
C13_LoadBypassesOlderStore ==
    Program = LateStoreThenLoad =>
        LET st == instructions[1]
            ld == instructions[2]
        IN  /\ (IsDefaultConfig /\ Committed(1)) =>
                  (ld.writeResult # -1 /\ ld.writeResult < st.commitCycle)
            /\ (isSimulationComplete /\ ld.writeResult < st.commitCycle) =>
                  /\ registers["F2"] = 15
                  /\ MemoryAt(memory, 15) = 100
                  /\ SeqFinal.regs["F2"] = 100

\* The LOAD has written the old word to its ROB entry while the older STORE
\* to the same address is still in the ROB, waiting for its data.
C13_Witness ==
    /\ Program = LateStoreThenLoad
    /\ \E p, q \in DOMAIN rob :
          /\ rob[p].busy
          /\ rob[p].instructionIndex = 2
          /\ rob[p].state = "ROB_WRITERESULT"
          /\ rob[p].address = 15
          /\ rob[p].value = 15
          /\ rob[q].busy
          /\ rob[q].instructionIndex = 1
          /\ ~rob[q].valueReady

(***************************************************************************)
(* C14.  The done predicate characterises full completion.  In every       *)
(* reachable state in which no un-issued instruction remains and the ROB   *)
(* is empty, every instruction has its issue, executionComplete,           *)
(* writeResult and commit stamps; and isSimulationComplete holds exactly   *)
(* when, in addition, the FU tracker and the CDB queue are empty.          *)
(***************************************************************************)
Drained ==
    /\ nextInstructionIndex >= NumInstructions
    /\ robEntriesAvailable = ROB_SIZE

AllStampsSet ==
    \A i \in DOMAIN instructions :
        /\ instructions[i].issue # -1
        /\ instructions[i].execComp # -1
        /\ instructions[i].writeResult # -1
        /\ instructions[i].commitCycle # -1

\* C14: with nothing left to issue and an empty ROB every stamp is set, and
\* done holds exactly when the FU tracker and the CDB queue are empty as well.
C14_DoneCharacterisesCompletion ==
    /\ Drained => AllStampsSet
    /\ isSimulationComplete <=>
          (Drained /\ executingInstructions = << >> /\ completedForCDB = << >>)

\* Everything is issued and committed, yet the simulation is not done: the
\* FU tracker still holds a record.
C14_Witness ==
    /\ Drained
    /\ AllStampsSet
    /\ executingInstructions # << >>
    /\ ~isSimulationComplete

(***************************************************************************)
(* C15.  Cycle bound: a program of N >= 1 instructions without division by *)
(* zero and without address out of range is done after at most            *)
(* N * (max_latency + ROB_SIZE) calls of stepSimulation, max_latency being *)
(* the DIV latency, 40; on the default machine ROB_SIZE is 16.             *)
(***************************************************************************)
CycleBound == NumInstructions * (DIV_LATENCY + ROB_SIZE)

\* C15: an error-free program of N instructions is done within
\* N * (40 + ROB_SIZE) cycles.
C15_CycleBound ==
    (CycleBoundary /\ ~SeqFinal.error) =>
        /\ NumInstructions >= 1
        /\ ~isSimulationComplete => cycle < CycleBound
        /\ isSimulationComplete => cycle <= CycleBound
        /\ IsDefaultConfig => CycleBound = NumInstructions * 56

\* Three dependent divisions on the default machine are done after more
\* than three DIV latencies.
C15_Witness ==
    /\ Program = DivChain
    /\ IsDefaultConfig
    /\ isSimulationComplete
    /\ cycle > 3 * DIV_LATENCY

(***************************************************************************)
(* C16.  After every cycle, a register whose status is busy names a ROB    *)
(* slot that is busy, not in state Empty, and whose destination register   *)
(* is that register.                                                       *)
(***************************************************************************)
C16_RegStatusNamesLiveEntry ==
    CycleBoundary =>
        \A r \in RegNames :
            regStatus[r].busy =>
                /\ regStatus[r].robIndex \in DOMAIN rob
                /\ rob[regStatus[r].robIndex].busy
                /\ rob[regStatus[r].robIndex].state # "ROB_EMPTY"
                /\ rob[regStatus[r].robIndex].destinationRegister = r

\* A busy register names a ROB slot that has been used before: the slot
\* holds the third or a later instruction of the program although the ROB
\* has only two slots.
C16_Witness ==
    /\ CycleBoundary
    /\ ROB_SIZE = 2
    /\ \E r \in RegNames :
          /\ regStatus[r].busy
          /\ rob[regStatus[r].robIndex].instructionIndex >= 2

(***************************************************************************)
(* C17.  The rename table tracks the youngest in-flight writer.  After     *)
(* every cycle, regStatus[r] is busy iff the ROB holds a busy entry that   *)
(* is not a STORE and whose destination is r, and then robIndex is the     *)
(* slot of the youngest such entry.  A Commit of a writer of r while a     *)
(* younger writer of r is in the ROB leaves regStatus[r] as it is; the     *)
(* Commit of the last in-flight writer of r frees it.  After               *)
(* ADD F1,F2,F3 / ADD F1,F4,F5 F1 is not busy and holds 20.                *)
(***************************************************************************)
\* The ROB slots of the in-flight writers of register r.
InFlightWriters(r) ==
    {p \in DOMAIN rob :
        rob[p].busy /\ rob[p].type # "STORE" /\ rob[p].destinationRegister = r}

\* The slot of the youngest in-flight writer of r (there is one).
YoungestWriter(r) ==
    CHOOSE p \in InFlightWriters(r) :
        \A q \in InFlightWriters(r) : rob[q].instructionIndex <= rob[p].instructionIndex

RenameTracksYoungest ==
    CycleBoundary =>
        \A r \in RegNames :
            /\ regStatus[r].busy <=> InFlightWriters(r) # {}
            /\ regStatus[r].busy => regStatus[r].robIndex = YoungestWriter(r)

CommitKeepsYoungerMapping ==
    (pc = "commit" /\ CanCommit /\ ~isSimulationComplete
        /\ rob[robHead].type # "STORE") =>
        LET r == rob[robHead].destinationRegister
        IN  /\ \A x \in RegNames \ {r} : regStatus'[x] = regStatus[x]
            /\ IF InFlightWriters(r) = {robHead}
               THEN ~regStatus'[r].busy
               ELSE /\ regStatus'[r] = regStatus[r]
                    /\ regStatus'[r].busy
                    /\ regStatus'[r].robIndex # robHead

Scenario2Final ==
    (Program = Scenario2 /\ isSimulationComplete) =>
        (~regStatus["F1"].busy /\ registers["F1"] = 20)

\* C17: regStatus names the youngest in-flight writer of each register.
C17_RenameTracksYoungestWriter ==
    /\ [](RenameTracksYoungest /\ Scenario2Final)
    /\ [][CommitKeepsYoungerMapping]_vars

\* The older of two in-flight writers of a register has just committed; the
\* register is still busy and names the younger one.
C17_Witness ==
    /\ pc = "writeback"
    /\ \E r \in RegNames, i, j \in DOMAIN instructions :
          /\ i < j
          /\ instructions[i].type # "STORE"
          /\ instructions[j].type # "STORE"
          /\ instructions[i].dest = r
          /\ instructions[j].dest = r
          /\ instructions[i].commitCycle = cycle
          /\ regStatus[r].busy
          /\ rob[regStatus[r].robIndex].instructionIndex = j

(***************************************************************************)
(* Observers of the reservation stations and the ROB.                      *)
(***************************************************************************)
\* The instructions held by busy stations.
BusyRSInstructions ==
    UNION {{RSArray(RSTypes[t])[k].instructionIndex :
               k \in {x \in DOMAIN RSArray(RSTypes[t]) : RSArray(RSTypes[t])[x].busy}} :
           t \in 1..4}

\* The number of busy stations that hold instruction i.
BusyStationsHolding(i) ==
    Cardinality({s \in {Stations[n] : n \in 1..Len(Stations)} :
                    /\ RSArray(s.rsType)[s.rsIndex].busy
                    /\ RSArray(s.rsType)[s.rsIndex].instructionIndex = i})

\* The ROB slots in one of the given states that hold instruction i.
ROBSlotsHolding(i, states) ==
    {p \in DOMAIN rob : rob[p].state \in states /\ rob[p].instructionIndex = i}

\* The instructions held by ROB entries in one of the given states.
ROBInstructionsIn(states) ==
    {rob[p].instructionIndex : p \in {x \in DOMAIN rob : rob[x].state \in states}}

(***************************************************************************)
(* C18.  As claimed: after every cycle the instructions held by busy       *)
(* reservation stations are the instructions of the ROB entries in state   *)
(* Issued, Executing or WroteResult.                                       *)
(***************************************************************************)
C18_Original ==
    CycleBoundary =>
        BusyRSInstructions =
            ROBInstructionsIn({"ROB_ISSUE", "ROB_EXECUTE", "ROB_WRITERESULT"})

(***************************************************************************)
(* C18, amended.  A station is released at Write-Result, when its ROB      *)
(* entry becomes WroteResult: after every cycle the instructions held by   *)
(* busy reservation stations are the instructions of the ROB entries in    *)
(* state Issued or Executing, each held by exactly one busy station and    *)
(* exactly one such ROB entry; an entry in state WroteResult has no        *)
(* station.                                                                *)
(***************************************************************************)
C18_Amended ==
    CycleBoundary =>
        /\ BusyRSInstructions = ROBInstructionsIn({"ROB_ISSUE", "ROB_EXECUTE"})
        /\ \A i \in BusyRSInstructions :
              /\ BusyStationsHolding(i) = 1
              /\ Cardinality(ROBSlotsHolding(i, {"ROB_ISSUE", "ROB_EXECUTE"})) = 1
        /\ \A i \in ROBInstructionsIn({"ROB_WRITERESULT"}) : BusyStationsHolding(i) = 0

\* After a cycle, one instruction waits for its Commit without a station
\* while a younger one still occupies a station.
C18_Witness ==
    /\ CycleBoundary
    /\ \E p, q \in DOMAIN rob :
          /\ rob[p].state = "ROB_WRITERESULT"
          /\ BusyStationsHolding(rob[p].instructionIndex) = 0
          /\ rob[q].state = "ROB_EXECUTE"
          /\ BusyStationsHolding(rob[q].instructionIndex) = 1

(***************************************************************************)
(* C19.  After every cycle, every record of the FU tracker refers to a     *)
(* station that is busy and holds the record's instruction, whose ROB      *)
(* entry is in state Executing, and no two records refer to the same       *)
(* station.                                                                *)
(***************************************************************************)
C19_TrackerMatchesStations ==
    CycleBoundary =>
        \A n \in 1..Len(executingInstructions) :
            LET e == executingInstructions[n]
                rs == RSArray(e.rsType)[e.rsIndex]
            IN  /\ rs.busy
                /\ rs.instructionIndex = e.instructionIndex
                /\ \E p \in DOMAIN rob :
                      /\ rob[p].busy
                      /\ rob[p].instructionIndex = e.instructionIndex
                      /\ rob[p].state = "ROB_EXECUTE"
                /\ \A m \in 1..Len(executingInstructions) :
                      (m # n) =>
                          ~(/\ executingInstructions[m].rsType = e.rsType
                            /\ executingInstructions[m].rsIndex = e.rsIndex)

(***************************************************************************)
(* C20.  After every cycle, every index in the CDB queue is an instruction *)
(* that occupies a busy station, has its executionComplete stamp, and      *)
(* whose ROB entry is in state Executing; so the Write-Result that         *)
(* dequeues it finds its station.                                          *)
(***************************************************************************)
C20_QueueRefersToLiveStations ==
    CycleBoundary =>
        \A n \in 1..Len(completedForCDB) :
            LET i == completedForCDB[n]
            IN  /\ FindRSOf(i).rsIndex # -1
                /\ instructions[i].execComp # -1
                /\ \E p \in DOMAIN rob :
                      /\ rob[p].busy
                      /\ rob[p].instructionIndex = i
                      /\ rob[p].state = "ROB_EXECUTE"

(***************************************************************************)
(* C21.  ROB circular-queue invariant.  After every cycle the free count   *)
(* plus the number of busy entries is ROB_SIZE; the busy entries are the   *)
(* slots head, head+1, ..., tail-1 (mod ROB_SIZE); their instructions are  *)
(* consecutive in program order from head to tail; and head = tail only    *)
(* when the ROB is empty or full.                                          *)
(***************************************************************************)
\* The number of busy ROB entries, by the free count.
Occupancy == ROB_SIZE - robEntriesAvailable

\* The k-th slot of the arc that starts at the head (k = 0 is the head).
ArcSlot(k) == (robHead + k) % ROB_SIZE

C21_ROBCircularQueue ==
    CycleBoundary =>
        /\ robEntriesAvailable \in 0..ROB_SIZE
        /\ robEntriesAvailable + Cardinality({p \in DOMAIN rob : rob[p].busy}) = ROB_SIZE
        /\ {p \in DOMAIN rob : rob[p].busy} = {ArcSlot(k) : k \in 0..(Occupancy - 1)}
        /\ robTail = ArcSlot(Occupancy)
        /\ \A k \in 0..(Occupancy - 1) :
              rob[ArcSlot(k)].instructionIndex = rob[robHead].instructionIndex + k
        /\ Occupancy > 0 =>
              rob[ArcSlot(Occupancy - 1)].instructionIndex = nextInstructionIndex - 1
        /\ robHead = robTail => (Occupancy = 0 \/ Occupancy = ROB_SIZE)

\* The arc wraps: the ROB is full, the head is the last slot and the
\* youngest entry is in a slot before it.
C21_Witness ==
    /\ CycleBoundary
    /\ Occupancy = ROB_SIZE
    /\ robHead = ROB_SIZE - 1
    /\ robTail = robHead
    /\ rob[0].instructionIndex = rob[robHead].instructionIndex + 1

(***************************************************************************)
(* C22.  No orphan or self tags.  After every cycle every non-empty Qj or  *)
(* Qk of a busy station names a busy ROB entry in state Issued or          *)
(* Executing that holds a non-STORE instruction strictly older than the    *)
(* station's own (never the station's own ROB slot).  A Write-Result of    *)
(* ROB entry p leaves no busy station with tag p, and every station that   *)
(* carried the tag holds p's result in the corresponding V field.          *)
(***************************************************************************)
\* Every station of the machine, as a set.
StationSet == {Stations[n] : n \in 1..Len(Stations)}

\* The station record behind a station identity.
StationAt(s) == RSArray(s.rsType)[s.rsIndex]

\* tag, held by a busy station rs, names a live older producer.
TagNamesOlderProducer(tag, rs) ==
    tag # "" =>
        \E p \in DOMAIN rob :
            /\ to_string(p) = tag
            /\ tag # rs.destRobIndex
            /\ rob[p].busy
            /\ rob[p].state \in {"ROB_ISSUE", "ROB_EXECUTE"}
            /\ rob[p].type # "STORE"
            /\ rob[p].instructionIndex < rs.instructionIndex

NoOrphanTags ==
    CycleBoundary =>
        \A s \in StationSet :
            StationAt(s).busy =>
                /\ TagNamesOlderProducer(StationAt(s).Qj, StationAt(s))
                /\ TagNamesOlderProducer(StationAt(s).Qk, StationAt(s))

\* A step that moves ROB entry p to WroteResult clears every tag p and
\* delivers p's value.
BroadcastReachesEveryWaiter ==
    \A p \in DOMAIN rob :
        (rob[p].state # "ROB_WRITERESULT" /\ rob'[p].state = "ROB_WRITERESULT") =>
            \A s \in StationSet :
                /\ StationAt(s)'.busy =>
                      (StationAt(s)'.Qj # to_string(p) /\ StationAt(s)'.Qk # to_string(p))
                /\ (StationAt(s).busy /\ StationAt(s).Qj = to_string(p)) =>
                      (/\ StationAt(s)'.busy
                       /\ StationAt(s)'.Qj = ""
                       /\ StationAt(s)'.Vj = rob'[p].value)
                /\ (StationAt(s).busy /\ StationAt(s).Qk = to_string(p)) =>
                      (/\ StationAt(s)'.busy
                       /\ StationAt(s)'.Qk = ""
                       /\ StationAt(s)'.Vk = rob'[p].value)

\* No busy station carries the tag of an entry that has written its result.
NoTagOfWrittenEntry ==
    \A p \in DOMAIN rob :
        (rob[p].busy /\ rob[p].state = "ROB_WRITERESULT") =>
            \A s \in StationSet :
                StationAt(s).busy =>
                    (StationAt(s).Qj # to_string(p) /\ StationAt(s).Qk # to_string(p))

\* C22: tags name live older producers, and a Write-Result clears its tag
\* everywhere.
C22_NoOrphanOrSelfTags ==
    /\ [](NoOrphanTags /\ NoTagOfWrittenEntry)
    /\ [][BroadcastReachesEveryWaiter]_vars

\* After a cycle, a station whose instruction reads and writes the same
\* register waits on the tag of the older writer of that register.
C22_Witness ==
    /\ CycleBoundary
    /\ \E s \in StationSet :
          /\ StationAt(s).busy
          /\ instructions[StationAt(s).instructionIndex].dest
                = instructions[StationAt(s).instructionIndex].src2
          /\ StationAt(s).Qk # ""
          /\ StationAt(s).Qk # StationAt(s).destRobIndex

(***************************************************************************)
(* C23.  Operand capture at Issue.  For each source register s of the      *)
(* instruction being issued: if regStatus[s] is not busy the station gets  *)
(* V = registers[s] and an empty Q; if it is busy with producer p, the     *)
(* station gets the tag of p iff p has not performed its Write-Result, and *)
(* otherwise V = rob[p].value and an empty Q.  An instruction issued in    *)
(* the cycle of its producer's Write-Result, or later, never waits on a    *)
(* tag.  (The first operand of a LOAD is its offset, not a register.)      *)
(***************************************************************************)
\* The pair V, Q is what the claim prescribes for source register s, in the
\* state before the Issue.
CapturedAsClaimed(s, V, Q) ==
    IF ~regStatus[s].busy
    THEN V = registers[s] /\ Q = ""
    ELSE LET p == regStatus[s].robIndex
         IN  IF rob[p].state = "ROB_WRITERESULT"
             THEN V = rob[p].value /\ Q = ""
             ELSE Q = to_string(p)

CaptureAtIssue ==
    (pc = "issue" /\ CanIssue) =>
        \E s \in StationSet :
            LET inst == instructions[nextInstructionIndex]
            IN  /\ s = findFreeRS(inst.type)
                /\ StationAt(s)'.busy
                /\ StationAt(s)'.instructionIndex = nextInstructionIndex
                /\ inst.type # "LOAD" =>
                      CapturedAsClaimed(inst.src1, StationAt(s)'.Vj, StationAt(s)'.Qj)
                /\ inst.type = "LOAD" =>
                      (StationAt(s)'.Qj = "" /\ StationAt(s)'.A = atoi(inst.src1))
                /\ CapturedAsClaimed(inst.src2, StationAt(s)'.Vk, StationAt(s)'.Qk)

\* C23: the operands a station gets at Issue.
C23_OperandCaptureAtIssue == [][CaptureAtIssue]_vars

\* Right after the Issue stage: the instruction issued in this cycle reads
\* a register whose producer wrote its result in this very cycle and has
\* not committed; the station holds the producer's value and no tag.
C23_Witness ==
    /\ pc = "start"
    /\ \E s \in StationSet, p \in DOMAIN rob :
          LET i == StationAt(s).instructionIndex
          IN  /\ StationAt(s).busy
              /\ instructions[i].issue = cycle
              /\ regStatus[instructions[i].src2].busy
              /\ regStatus[instructions[i].src2].robIndex = p
              /\ rob[p].busy
              /\ rob[p].instructionIndex < i
              /\ rob[p].state = "ROB_WRITERESULT"
              /\ instructions[rob[p].instructionIndex].writeResult = cycle
              /\ StationAt(s).Qk = ""
              /\ StationAt(s).Vk = rob[p].value
              /\ rob[p].value # INITIAL_REGISTER_VALUE


(***************************************************************************)
(* C24  Execution timing.                                                  *)
(***************************************************************************)
\* The FU records of station s.
RecordsOf(s) ==
    {n \in 1..Len(executingInstructions) :
        /\ executingInstructions[n].rsType = s.rsType
        /\ executingInstructions[n].rsIndex = s.rsIndex}

\* C24: a busy station that has both Qj and Qk empty at Execute-Start is
\* dispatched in that very cycle: once Execute-Start has run, its ROB entry
\* is Executing and the FU tracker holds a record of its instruction whose
\* counter L - (cycle - d) does not exceed its latency L, or the instruction
\* has finished and waits in the CDB queue.
C24_ExecutionTiming ==
    pc = "advance" =>
        \A s \in StationSet :
            LET rs == StationAt(s)
            IN  OperandsReady(rs) =>
                    /\ rob[stoi(rs.destRobIndex)].state = "ROB_EXECUTE"
                    /\ \/ \E n \in RecordsOf(s) :
                             /\ executingInstructions[n].instructionIndex
                                   = rs.instructionIndex
                             /\ executingInstructions[n].remainingCycles
                                   \in 1..LatencyOf(s.rsType, rs.op)
                       \/ \E q \in 1..Len(completedForCDB) :
                             completedForCDB[q] = rs.instructionIndex


(***************************************************************************)
(* C25  One common data bus, served first in, first out.                   *)
(***************************************************************************)
\* The ROB slots that move to WroteResult in this step.
MovesToWroteResult ==
    {p \in DOMAIN rob : rob'[p].state = "ROB_WRITERESULT" /\ rob[p].state # "ROB_WRITERESULT"}

\* The tags that this step clears in some station.
TagsCleared ==
    {StationAt(s).Qj : s \in {x \in StationSet : StationAt(x).Qj # "" /\ StationAt(x)'.Qj = ""}}
    \cup
    {StationAt(s).Qk : s \in {x \in StationSet : StationAt(x).Qk # "" /\ StationAt(x)'.Qk = ""}}

\* Only Write-Result moves a ROB entry to WroteResult or clears a tag; it
\* serves the head of the CDB queue and nothing else: it removes the head,
\* stamps it, moves at most the head's ROB entry and clears at most the tag
\* of that entry.
OneBroadcastPerCycle ==
    /\ Cardinality(MovesToWroteResult) <= 1
    /\ Cardinality(TagsCleared) <= 1
    /\ (MovesToWroteResult # {} \/ TagsCleared # {}) =>
          (pc = "writeback" /\ completedForCDB # << >>)
    /\ (pc = "writeback" /\ completedForCDB # << >>) =>
          /\ completedForCDB' = Tail(completedForCDB)
          /\ instructions'[Head(completedForCDB)].writeResult = cycle
          /\ \A p \in MovesToWroteResult :
                /\ rob[p].instructionIndex = Head(completedForCDB)
                /\ TagsCleared \subseteq {to_string(p)}
          /\ TagsCleared # {} => MovesToWroteResult # {}

\* The instruction indices of the records whose counter reaches zero in this
\* cycle, in the order of the FU tracker.
CompletingInTrackerOrder ==
    LET done == SelectSeq(executingInstructions, LAMBDA e : e.remainingCycles <= 1)
    IN  [n \in 1..Len(done) |-> done[n].instructionIndex]

\* The CDB queue grows only at its end, only in Execute-Advance, and by the
\* instructions that complete in this cycle in tracker order.
QueueIsFIFO ==
    /\ pc = "advance" =>
          completedForCDB' = completedForCDB \o CompletingInTrackerOrder
    /\ pc \notin {"advance", "writeback"} => completedForCDB' = completedForCDB
    /\ (pc = "writeback" /\ completedForCDB = << >>) => completedForCDB' = << >>

\* The two multiplications of SharedProducer complete together in cycle 11
\* with an empty queue and write in cycles 12 and 13, in tracker order.
SharedProducerWritesInTurn ==
    (Program = SharedProducer /\ IsDefaultConfig) =>
        /\ (pc = "advance" /\ cycle = 11) =>
              (completedForCDB = << >> /\ CompletingInTrackerOrder = << 1, 2 >>)
        /\ (pc = "issue" /\ cycle = 12) =>
              /\ rob[1].state = "ROB_WRITERESULT"
              /\ rob[2].state = "ROB_EXECUTE"
              /\ instructions[1].writeResult = 12
        /\ (pc = "issue" /\ cycle = 13) =>
              (rob[2].busy /\ rob[2].state = "ROB_WRITERESULT")

\* C25: per cycle at most one ROB entry moves to WroteResult and at most
\* one tag is broadcast; results are written in the order of completion,
\* simultaneous completions in tracker order, one per following cycle.
C25_SingleCDBFifo ==
    /\ [][OneBroadcastPerCycle /\ QueueIsFIFO]_vars
    /\ []SharedProducerWritesInTurn

\* Write-Result serves the first of two queued results while the second,
\* completed in the same cycle, stays queued with its entry Executing.
C25_Witness ==
    /\ pc = "issue"
    /\ Len(completedForCDB) >= 1
    /\ \E p \in DOMAIN rob :
          /\ rob[p].busy /\ rob[p].state = "ROB_WRITERESULT"
          /\ instructions[rob[p].instructionIndex].writeResult = cycle
          /\ instructions[rob[p].instructionIndex].execComp
                = instructions[completedForCDB[1]].execComp
          /\ rob[p].instructionIndex # completedForCDB[1]
    /\ \E q \in DOMAIN rob :
          /\ rob[q].busy /\ rob[q].state = "ROB_EXECUTE"
          /\ rob[q].instructionIndex = completedForCDB[1]


(***************************************************************************)
(* C26  One dispatch and one CDB request per instruction.                  *)
(***************************************************************************)
\* The FU records of instruction i, and its places in the CDB queue.
DispatchesInFlight(i) ==
    {n \in 1..Len(executingInstructions) : executingInstructions[n].instructionIndex = i}

RequestsQueued(i) == {q \in 1..Len(completedForCDB) : completedForCDB[q] = i}

\* C26: every issued instruction is dispatched exactly once and queued on
\* the CDB exactly once: at any moment an instruction has at most one FU
\* record or queued request, none before it is issued, and none once it has
\* written its result, also while it waits in the queue with its station
\* busy and tag-free.
C26_DispatchedAndQueuedOnce ==
    \A i \in DOMAIN instructions :
        LET inFlight == Cardinality(DispatchesInFlight(i)) + Cardinality(RequestsQueued(i))
        IN  /\ inFlight <= 1
            /\ (instructions[i].issue = -1 \/ Committed(i)) => inFlight = 0


(***************************************************************************)
(* C27  The data of a STORE in its ROB entry.                              *)
(***************************************************************************)
\* The busy store stations that belong to ROB slot p.
StoreStationsOf(p) ==
    {k \in DOMAIN storeRS :
        /\ storeRS[k].busy
        /\ storeRS[k].destRobIndex = to_string(p)
        /\ storeRS[k].instructionIndex = rob[p].instructionIndex}

\* A STORE entry that is Executing or WroteResult has its data, and the data
\* is the Vj of its station as long as the station is busy.
StoreEntryHoldsData ==
    \A p \in DOMAIN rob :
        (/\ rob[p].busy
         /\ rob[p].type = "STORE"
         /\ rob[p].state \in {"ROB_EXECUTE", "ROB_WRITERESULT"}) =>
            /\ rob[p].valueReady
            /\ \A k \in StoreStationsOf(p) :
                  storeRS[k].Qj = "" /\ rob[p].value = storeRS[k].Vj

\* The Write-Result of a STORE moves its entry to WroteResult and leaves the
\* entry's value as it was.
StoreWriteResultKeepsValue ==
    (pc = "writeback" /\ completedForCDB # << >>) =>
        \A p \in DOMAIN rob :
            (rob[p].type = "STORE" /\ StoreStationsOf(p) # {}
             /\ rob[p].instructionIndex = Head(completedForCDB)) =>
                /\ rob'[p].state = "ROB_WRITERESULT"
                /\ rob'[p].valueReady
                /\ rob'[p].value = rob[p].value

\* A STORE at the head of the ROB in state WroteResult has its data.
HeadStoreIsReady ==
    (/\ rob[robHead].busy
     /\ rob[robHead].type = "STORE"
     /\ rob[robHead].state = "ROB_WRITERESULT") => rob[robHead].valueReady

\* C27: a STORE's ROB entry in state Executing or WroteResult has valueReady
\* and holds the STORE's data operand (Vj of its busy station), Write-Result
\* of a STORE leaves the value unchanged, and a STORE at the head in state
\* WroteResult has valueReady.
C27_StoreDataCoupling ==
    /\ [](StoreEntryHoldsData /\ HeadStoreIsReady)
    /\ [][StoreWriteResultKeepsValue]_vars

\* A STORE whose data came over the bus has just written its result and is
\* at the head of the ROB with the producer's value.
C27_Witness ==
    /\ pc = "issue"
    /\ rob[robHead].busy
    /\ rob[robHead].type = "STORE"
    /\ rob[robHead].state = "ROB_WRITERESULT"
    /\ rob[robHead].valueReady
    /\ rob[robHead].value # INITIAL_REGISTER_VALUE
    /\ instructions[rob[robHead].instructionIndex].writeResult = cycle
    /\ DataInFlightAtIssue(rob[robHead].instructionIndex)


(***************************************************************************)
(* C28  A structural stall changes nothing.                                *)
(***************************************************************************)
\* Every station of the group that serves instructions of this type is busy.
GroupFull(type) ==
    CASE type \in {"ADD", "SUB"} -> \A k \in DOMAIN addRS : addRS[k].busy
      [] type \in {"MUL", "DIV"} -> \A k \in DOMAIN mulRS : mulRS[k].busy
      [] type = "LOAD" -> \A k \in DOMAIN loadRS : loadRS[k].busy
      [] OTHER -> \A k \in DOMAIN storeRS : storeRS[k].busy

\* The three causes of a structural stall at Issue.
NothingToIssue == nextInstructionIndex >= Len(Program)
ROBFull == robEntriesAvailable = 0
StationsTaken ==
    nextInstructionIndex < Len(Program) /\ GroupFull(instructions[nextInstructionIndex].type)

StructuralStall == NothingToIssue \/ ROBFull \/ StationsTaken

\* C28: when there is no un-issued instruction, the ROB is full or every
\* station of the next instruction's group is busy, the Issue stage leaves
\* the ROB, the tail, the free count, the stations, the register status,
\* the next-instruction index and the stamps as they are: in particular no
\* younger instruction is issued in place of the stalled one.
C28_StallChangesNothing ==
    [][(pc = "issue" /\ StructuralStall) =>
          UNCHANGED << instructions, addRS, mulRS, loadRS, storeRS, rob, registers,
                       regStatus, memory, cycle, nextInstructionIndex, robHead,
                       robTail, robEntriesAvailable, ROB_SIZE, executingInstructions,
                       completedForCDB >>]_vars

\* Issue has just stalled for want of a station while the ROB has room and
\* the instruction after the stalled one could have taken a free station of
\* its own group.
C28_Witness ==
    /\ pc = "start"
    /\ StationsTaken
    /\ ~ROBFull
    /\ nextInstructionIndex + 1 < Len(Program)
    /\ ~GroupFull(instructions[nextInstructionIndex + 1].type)
    /\ instructions[nextInstructionIndex].issue = -1
    /\ instructions[nextInstructionIndex + 1].issue = -1
    /\ instructions[nextInstructionIndex - 1].issue < cycle


(***************************************************************************)
(* C29  A station is released at Write-Result, not at Commit.              *)
(***************************************************************************)
\* The group of stations that serves the next instruction.
NextGroup ==
    CASE instructions[nextInstructionIndex].type \in {"ADD", "SUB"} -> "ADD"
      [] instructions[nextInstructionIndex].type \in {"MUL", "DIV"} -> "MUL"
      [] OTHER -> instructions[nextInstructionIndex].type

\* Write-Result serves a holder of the group whose stations are all taken,
\* the lack of a station being all that keeps the next instruction from
\* issuing: after the step a station of the group is free, Issue can go
\* ahead, and the holder's ROB entry is still in the ROB, in WroteResult.
WriteResultFreesStation ==
    (/\ pc = "writeback"
     /\ completedForCDB # << >>
     /\ StationsTaken
     /\ ~ROBFull
     /\ FindRSOf(Head(completedForCDB)).rsType = NextGroup) =>
        /\ ~StationsTaken'
        /\ ~StructuralStall'
        /\ \E p \in DOMAIN rob :
              /\ rob[p].busy
              /\ rob[p].instructionIndex = Head(completedForCDB)
              /\ rob'[p].busy
              /\ rob'[p].state = "ROB_WRITERESULT"
              /\ rob'[p].instructionIndex = rob[p].instructionIndex
              /\ instructions[rob[p].instructionIndex].commitCycle = -1

\* Issue, run after Write-Result in the same cycle, issues the next
\* instruction whenever no structural stall holds.
IssueWhenNotStalled ==
    (pc = "issue" /\ ~StructuralStall) =>
        /\ instructions'[nextInstructionIndex].issue = cycle
        /\ nextInstructionIndex' = nextInstructionIndex + 1
        /\ \E s \in StationSet :
              /\ ~StationAt(s).busy
              /\ s.rsType = NextGroup
              /\ StationAt(s)'.busy
              /\ StationAt(s)'.instructionIndex = nextInstructionIndex

\* C29: an instruction that is stalled only because every station of its
\* group is busy is issued in the very cycle in which a holder of the group
\* performs its Write-Result, while the holder's ROB entry is uncommitted.
C29_ReleasedAtWriteResult ==
    [][WriteResultFreesStation /\ IssueWhenNotStalled]_vars

\* An instruction that had to wait for a station has been issued in the
\* cycle of the Write-Result of an uncommitted holder of its group, whose
\* stations are all taken again.
C29_Witness ==
    /\ pc = "start"
    /\ nextInstructionIndex >= 2
    /\ instructions[nextInstructionIndex - 1].issue = cycle
    /\ instructions[nextInstructionIndex - 2].issue < cycle - 1
    /\ GroupFull(instructions[nextInstructionIndex - 1].type)
    /\ \E p \in DOMAIN rob :
          /\ rob[p].busy
          /\ rob[p].state = "ROB_WRITERESULT"
          /\ instructions[rob[p].instructionIndex].writeResult = cycle
          /\ instructions[rob[p].instructionIndex].commitCycle = -1
          /\ RSGroupOf(rob[p].type) = RSGroupOf(instructions[nextInstructionIndex - 1].type)
          /\ ~ROBFull


(***************************************************************************)
(* C30  The slot freed by Commit is allocated in the same cycle.           *)
(***************************************************************************)
\* The head commits although the ROB is full: the slot it frees is the one
\* the tail points to, and it is the only free slot afterwards.
CommitFromFullROB ==
    (/\ pc = "commit"
     /\ ROBFull
     /\ rob[robHead].busy
     /\ rob[robHead].state = "ROB_WRITERESULT"
     /\ rob[robHead].type = "STORE" => rob[robHead].valueReady) =>
        /\ robTail = robHead
        /\ ~rob'[robHead].busy
        /\ instructions'[rob[robHead].instructionIndex].commitCycle = cycle
        /\ robEntriesAvailable' = 1
        /\ robTail' = robTail
        /\ robHead' = (robHead + 1) % ROB_SIZE

\* Write-Result leaves the free count and the two pointers alone.
WriteResultKeepsPointers ==
    pc = "writeback" =>
        UNCHANGED << robHead, robTail, robEntriesAvailable, nextInstructionIndex >>

\* The only free slot is the one the head left in this cycle, and the next
\* instruction finds a free station: it is issued now, into that slot.
IssueIntoFreedSlot ==
    (/\ pc = "issue"
     /\ robEntriesAvailable = 1
     /\ \E i \in DOMAIN instructions : instructions[i].commitCycle = cycle
     /\ nextInstructionIndex < Len(Program)
     /\ ~GroupFull(instructions[nextInstructionIndex].type)) =>
        /\ robHead = (robTail + 1) % ROB_SIZE
        /\ ~rob[robTail].busy
        /\ instructions[rob[robTail].instructionIndex].commitCycle = cycle
        /\ instructions'[nextInstructionIndex].issue = cycle
        /\ rob'[robTail].busy
        /\ rob'[robTail].instructionIndex = nextInstructionIndex
        /\ rob'[robTail].state = "ROB_ISSUE"
        /\ robEntriesAvailable' = 0

\* C30: when the ROB is full at the start of a cycle in which the head
\* commits and the next un-issued instruction has a free station in its
\* group, the instruction is issued in the same cycle into the slot just
\* freed, which is the old head and equals the tail.
C30_SlotReusedWithinCycle ==
    [][CommitFromFullROB /\ WriteResultKeepsPointers /\ IssueIntoFreedSlot]_vars

\* The ROB is full again after Issue: the slot of an instruction committed
\* in this cycle holds the instruction issued in this cycle.
C30_Witness ==
    /\ pc = "start"
    /\ ROBFull
    /\ robTail = robHead
    /\ nextInstructionIndex >= 1
    /\ instructions[nextInstructionIndex - 1].issue = cycle
    /\ \E i \in DOMAIN instructions : instructions[i].commitCycle = cycle
    /\ \E p \in DOMAIN rob :
          /\ robHead = (p + 1) % ROB_SIZE
          /\ rob[p].busy
          /\ rob[p].instructionIndex = nextInstructionIndex - 1


(***************************************************************************)
(* C31  A division by zero gives 0 and the run goes on.                    *)
(***************************************************************************)
\* The stations that wait for the result of ROB slot p.
WaitingOnj(p) == {s \in StationSet : StationAt(s).busy /\ StationAt(s).Qj = to_string(p)}
WaitingOnk(p) == {s \in StationSet : StationAt(s).busy /\ StationAt(s).Qk = to_string(p)}

\* Write-Result of a DIV whose divisor is 0: the entry becomes WroteResult
\* with value 0, and every station waiting for it receives 0.
DivByZeroWritesZero ==
    (pc = "writeback" /\ completedForCDB # << >>) =>
        \A k \in DOMAIN mulRS :
            (/\ mulRS[k].busy
             /\ mulRS[k].instructionIndex = Head(completedForCDB)
             /\ instructions[Head(completedForCDB)].type = "DIV"
             /\ mulRS[k].Vk = 0) =>
                \E p \in DOMAIN rob :
                    /\ to_string(p) = mulRS[k].destRobIndex
                    /\ rob'[p].busy
                    /\ rob'[p].state = "ROB_WRITERESULT"
                    /\ rob'[p].valueReady
                    /\ rob'[p].value = 0
                    /\ \A s \in WaitingOnj(p) : StationAt(s)'.Qj = "" /\ StationAt(s)'.Vj = 0
                    /\ \A s \in WaitingOnk(p) : StationAt(s)'.Qk = "" /\ StationAt(s)'.Vk = 0

\* DivByZero: once the DIV has written, the waiting ADD holds 0 as its first
\* operand; once it has committed, F3 is 0; at the end F3 = 0 and F4 = 0 + 10.
DivByZeroRun ==
    Program = DivByZero =>
        /\ \A k \in DOMAIN addRS :
              (/\ addRS[k].busy
               /\ addRS[k].instructionIndex = 2
               /\ addRS[k].Qj = "") => addRS[k].Vj = 0
        /\ Committed(1) => registers["F3"] = 0
        /\ isSimulationComplete =>
              /\ registers["F1"] = 0
              /\ registers["F3"] = 0
              /\ registers["F4"] = 10
              /\ \A i \in DOMAIN instructions : Committed(i)

\* C31: a DIV whose divisor is 0 at Write-Result produces 0, its entry
\* becomes WroteResult with valueReady, the waiting stations receive 0, the
\* instruction commits 0 to its destination, and the run is completed.
C31_DivideByZeroAbsorbed ==
    /\ [][DivByZeroWritesZero]_vars
    /\ []DivByZeroRun
    /\ (Program = DivByZero => <>AllCompleted)

\* The run of DivByZero is complete with 0 in the quotient's register.
C31_Witness ==
    /\ Program = DivByZero
    /\ isSimulationComplete
    /\ registers["F3"] = 0
    /\ instructions[1].writeResult > instructions[0].commitCycle


(***************************************************************************)
(* C32  A LOAD from an address outside the memory gives 0.                 *)
(***************************************************************************)
\* The address is outside [0, 1024).
OutOfRange(a) == a < 0 \/ a >= 1024

\* Write-Result of a LOAD whose effective address is out of range: the
\* entry becomes WroteResult with value 0 and the address recorded, every
\* station waiting for it receives 0, and memory is as before.
OutOfRangeLoadWritesZero ==
    (pc = "writeback" /\ completedForCDB # << >>) =>
        \A k \in DOMAIN loadRS :
            (/\ loadRS[k].busy
             /\ loadRS[k].instructionIndex = Head(completedForCDB)
             /\ OutOfRange(loadRS[k].A + loadRS[k].Vk)) =>
                \E p \in DOMAIN rob :
                    /\ to_string(p) = loadRS[k].destRobIndex
                    /\ rob'[p].busy
                    /\ rob'[p].state = "ROB_WRITERESULT"
                    /\ rob'[p].valueReady
                    /\ rob'[p].value = 0
                    /\ rob'[p].address = loadRS[k].A + loadRS[k].Vk
                    /\ \A s \in WaitingOnj(p) : StationAt(s)'.Qj = "" /\ StationAt(s)'.Vj = 0
                    /\ \A s \in WaitingOnk(p) : StationAt(s)'.Qk = "" /\ StationAt(s)'.Vk = 0
                    /\ memory' = memory

\* Commit of such a LOAD writes 0 to its destination register and leaves
\* memory as it is.
OutOfRangeLoadCommitsZero ==
    (/\ pc = "commit"
     /\ rob[robHead].busy
     /\ rob[robHead].type = "LOAD"
     /\ rob[robHead].state = "ROB_WRITERESULT"
     /\ OutOfRange(rob[robHead].address)) =>
        /\ rob[robHead].value = 0
        /\ registers'[rob[robHead].destinationRegister] = 0
        /\ instructions'[rob[robHead].instructionIndex].commitCycle = cycle
        /\ memory' = memory

\* C32: a LOAD whose effective address A + Vk lies outside [0, 1024) reads
\* no memory word: its result is 0, the address is recorded in its ROB
\* entry, 0 is broadcast and committed to its destination register, and
\* memory is unchanged.
C32_OutOfRangeLoad ==
    [][OutOfRangeLoadWritesZero /\ OutOfRangeLoadCommitsZero]_vars

\* A LOAD from a negative address has committed 0 to its register.
C32_Witness ==
    \E p \in DOMAIN rob :
        /\ rob[p].type = "LOAD"
        /\ ~rob[p].busy
        /\ rob[p].instructionIndex \in DOMAIN instructions
        /\ Committed(rob[p].instructionIndex)
        /\ OutOfRange(rob[p].address)
        /\ rob[p].value = 0
        /\ registers[rob[p].destinationRegister] = 0
        /\ DOMAIN memory = {}


(***************************************************************************)
(* C33  A STORE to an address outside the memory commits without writing.  *)
(***************************************************************************)
\* The STORE at the head of the ROB is ready to commit and its address is
\* out of range: Commit writes no memory word and no register, stamps the
\* commit cycle, empties the head entry, advances the head and gives the
\* slot back.
OutOfRangeStoreCommits ==
    (/\ pc = "commit"
     /\ robEntriesAvailable # ROB_SIZE
     /\ rob[robHead].busy
     /\ rob[robHead].type = "STORE"
     /\ rob[robHead].state = "ROB_WRITERESULT"
     /\ rob[robHead].valueReady
     /\ OutOfRange(rob[robHead].address)) =>
        /\ memory' = memory
        /\ registers' = registers
        /\ instructions'[rob[robHead].instructionIndex].commitCycle = cycle
        /\ ~rob'[robHead].busy
        /\ rob'[robHead].state = "ROB_EMPTY"
        /\ robHead' = (robHead + 1) % ROB_SIZE
        /\ robEntriesAvailable' = robEntriesAvailable + 1

\* C33: Commit of a STORE whose address is outside [0, 1024) leaves every
\* memory word unchanged but stamps the commit cycle, marks the head entry
\* empty, advances the head and increments robEntriesAvailable, so that
\* younger instructions are not blocked.
C33_OutOfRangeStore == [][OutOfRangeStoreCommits]_vars

\* A STORE to an address beyond the memory has committed, no memory word
\* was written, and a younger instruction has committed after it.
C33_Witness ==
    \E p \in DOMAIN rob :
        /\ rob[p].type = "STORE"
        /\ rob[p].instructionIndex \in DOMAIN instructions
        /\ Committed(rob[p].instructionIndex)
        /\ OutOfRange(rob[p].address)
        /\ DOMAIN memory = {}
        /\ \E j \in DOMAIN instructions :
              /\ j > rob[p].instructionIndex
              /\ instructions[j].commitCycle > instructions[rob[p].instructionIndex].commitCycle


(***************************************************************************)
(* C34  Write-Result of an index that no station holds.                    *)
(***************************************************************************)
\* No busy station holds instruction i.
NoStationHolds(i) ==
    \A s \in StationSet : ~(StationAt(s).busy /\ StationAt(s).instructionIndex = i)

\* C34: when Write-Result takes from the CDB queue an index that no busy
\* station holds, the ROB, the stations, the register status and the event
\* stamps of that instruction, writeResult included, stay as they were.
C34_MissingStationChangesNothing ==
    [][(/\ pc = "writeback"
        /\ completedForCDB # << >>
        /\ NoStationHolds(Head(completedForCDB))) =>
           UNCHANGED << rob, addRS, mulRS, loadRS, storeRS, regStatus, registers,
                        memory, instructions >>]_vars


(***************************************************************************)
(* C35  Every cycle makes progress.                                        *)
(***************************************************************************)
\* What has happened in the current cycle, seen after Execute-Start: the
\* stages stamp the instruction they serve with the cycle, and a record
\* dispatched in this cycle still has its full counter.
CommittedThisCycle == \E i \in DOMAIN instructions : instructions[i].commitCycle = cycle
WroteResultThisCycle == \E i \in DOMAIN instructions : instructions[i].writeResult = cycle
IssuedThisCycle == \E i \in DOMAIN instructions : instructions[i].issue = cycle
DispatchedThisCycle ==
    \E n \in 1..Len(executingInstructions) :
        executingInstructions[n].remainingCycles
            = LatencyOf(executingInstructions[n].rsType,
                        instructions[executingInstructions[n].instructionIndex].type)

\* Execute-Advance, the stage still to run, decrements every record.
CounterDecrementedThisCycle == executingInstructions # << >>

\* C35: every step taken while the done predicate is false commits an
\* instruction, performs a Write-Result, issues an instruction, dispatches
\* a station or decrements an FU counter: no step changes the cycle counter
\* only.
C35_ProgressEveryCycle ==
    pc = "advance" =>
        \/ CommittedThisCycle
        \/ WroteResultThisCycle
        \/ IssuedThisCycle
        \/ DispatchedThisCycle
        \/ CounterDecrementedThisCycle

\* A cycle whose only event is the decrement of a counter: nothing was
\* committed, written, issued or dispatched, and an instruction waits for
\* the one in execution.
C35_Witness ==
    /\ pc = "advance"
    /\ ~CommittedThisCycle
    /\ ~WroteResultThisCycle
    /\ ~IssuedThisCycle
    /\ ~DispatchedThisCycle
    /\ ~isSimulationComplete
    /\ Len(executingInstructions) = 1
    /\ \E s \in StationSet : StationAt(s).busy /\ StationAt(s).Qj # ""


(***************************************************************************)
(* C36  The event stamps are written once.                                 *)
(***************************************************************************)
\* C36: once the issue, execution-complete, write-result or commit stamp of
\* an instruction is set, no later step changes it.
C36_StampsWrittenOnce ==
    [][\A i \in DOMAIN instructions :
          /\ instructions[i].issue # -1 =>
                instructions'[i].issue = instructions[i].issue
          /\ instructions[i].execComp # -1 =>
                instructions'[i].execComp = instructions[i].execComp
          /\ instructions[i].writeResult # -1 =>
                instructions'[i].writeResult = instructions[i].writeResult
          /\ instructions[i].commitCycle # -1 =>
                instructions'[i].commitCycle = instructions[i].commitCycle]_vars


(***************************************************************************)
(* C37  The run ends with the last commit.                                 *)
(***************************************************************************)
\* Every instruction of the program has committed.
AllCommitted == \A i \in DOMAIN instructions : Committed(i)

\* The cycle of the last commit.
LastCommitCycle == MaxOf({instructions[i].commitCycle : i \in DOMAIN instructions})

\* C37: at the end of the cycle in which the last instruction commits the
\* FU tracker and the CDB queue are empty, the done predicate holds, and the
\* final cycle that is reported (the cycle counter minus one) is the cycle
\* of that commit.
C37_EndsWithLastCommit ==
    (CycleBoundary /\ AllCommitted) =>
        /\ executingInstructions = << >>
        /\ completedForCDB = << >>
        /\ isSimulationComplete
        /\ cycle - 1 = LastCommitCycle


(***************************************************************************)
(* C38  One instruction is issued per cycle, in program order.             *)
(***************************************************************************)
\* Instruction i has been issued.
Issued(i) == instructions[i].issue # -1

\* The ROB slots known to have been allocated to instruction i: the slots
\* that hold it, and the slot its station names.
AllocatedSlots(i) ==
    {p \in DOMAIN rob : rob[p].instructionIndex = i}
    \cup {stoi(StationAt(s).destRobIndex) :
             s \in {x \in StationSet :
                      StationAt(x).busy /\ StationAt(x).instructionIndex = i}}

\* Issue stamps grow strictly with the program order, and the slots of two
\* instructions lie as far apart as the instructions, modulo the ROB size.
IssueOrder ==
    \A i, j \in DOMAIN instructions :
        (i < j /\ Issued(j)) =>
            /\ Issued(i)
            /\ instructions[i].issue < instructions[j].issue
            /\ \A p \in AllocatedSlots(i), q \in AllocatedSlots(j) :
                  q = (p + (j - i)) % ROB_SIZE

\* An issue stamp is set by the Issue stage only, for the next instruction
\* of the program, with the current cycle.
IssueOnlyNext ==
    \A i \in DOMAIN instructions :
        instructions'[i].issue # instructions[i].issue =>
            /\ pc = "issue"
            /\ i = nextInstructionIndex
            /\ instructions'[i].issue = cycle
            /\ nextInstructionIndex' = i + 1

\* C38: at most one instruction is issued per cycle and instructions are
\* issued in program order: issue(i) < issue(j) for issued i < j, and the
\* ROB slot of j is the slot of i plus j - i, modulo ROB_SIZE.
C38_InOrderSingleIssue == []IssueOrder /\ [][IssueOnlyNext]_vars

\* Three instructions are issued, the third after a stall and into the slot
\* the first one had: the slots wrap around the ROB.
C38_Witness ==
    /\ NumInstructions = 3
    /\ Issued(2)
    /\ instructions[2].issue > instructions[1].issue + 1
    /\ AllocatedSlots(1) # {}
    /\ \E q \in AllocatedSlots(2) : \A p \in AllocatedSlots(1) : q < p


(***************************************************************************)
(* C39  The link from a reservation station to its ROB entry.              *)
(***************************************************************************)
\* The busy stations.
BusyStations == {s \in StationSet : StationAt(s).busy}

\* The ROB slots a station's destRobIndex names (one slot, or none).
SlotsNamedBy(s) == {p \in DOMAIN rob : to_string(p) = StationAt(s).destRobIndex}

\* C39: after every cycle each busy station names, by its destRobIndex, a
\* busy ROB entry with the station's instruction and operation whose state
\* is Issued or Executing, and no two busy stations name the same entry.
C39_StationLinksToROBEntry ==
    CycleBoundary =>
        /\ \A s \in BusyStations :
              /\ Cardinality(SlotsNamedBy(s)) = 1
              /\ \A p \in SlotsNamedBy(s) :
                    /\ rob[p].busy
                    /\ rob[p].instructionIndex = StationAt(s).instructionIndex
                    /\ rob[p].type = StationAt(s).op
                    /\ rob[p].state \in {"ROB_ISSUE", "ROB_EXECUTE"}
        /\ \A s, u \in BusyStations :
              s # u => StationAt(s).destRobIndex # StationAt(u).destRobIndex

\* At the end of a cycle two stations are busy, one linked to an entry that
\* is Issued and one to an entry that is Executing, while an older entry
\* that has written its result has no station any more.
C39_Witness ==
    /\ CycleBoundary
    /\ \E s, u \in BusyStations :
          /\ rob[stoi(StationAt(s).destRobIndex)].state = "ROB_ISSUE"
          /\ rob[stoi(StationAt(u).destRobIndex)].state = "ROB_EXECUTE"
    /\ \E p \in DOMAIN rob :
          /\ rob[p].busy
          /\ rob[p].state = "ROB_WRITERESULT"
          /\ NoStationHolds(rob[p].instructionIndex)


(***************************************************************************)
(* The simulator without reorder buffer (src/unnamed/part_003), the engine *)
(* the README describes: results go to the register file at Write-Result.  *)
(* Its state is held in the variables above that it shares with the ROB    *)
(* engine: instructions, the four station arrays, registers, regStatus,    *)
(* memory, cycle, nextInstructionIndex, executingInstructions, and         *)
(* completedForCDB for its queue completedInstructions.  The ROB variables *)
(* do not exist in this engine and keep their initial values.  A station   *)
(* has the field dest in place of destRobIndex, a register status has      *)
(* reorderName, and an instruction has no commit stamp.  pc runs through   *)
(* the stages of its stepSimulation.                                       *)
(***************************************************************************)
MaxNoROBProgLen == 2

\* struct Instruction as this loadInstructions fills it.
ParsedNoROB(inst) ==
    [type |-> inst.type, dest |-> inst.dest, src1 |-> inst.src1, src2 |-> inst.src2,
     issue |-> -1, execComp |-> -1, writeResult |-> -1]

\* struct ReservationStation and struct RegisterStatus after construction.
EmptyStationNoROB ==
    [busy |-> FALSE, op |-> "INVALID", Vj |-> 0, Vk |-> 0, Qj |-> "", Qk |-> "",
     dest |-> "", A |-> 0, instructionIndex |-> -1]

FreeStatusNoROB == [busy |-> FALSE, reorderName |-> ""]

\* An old long division and a young short addition write the same register.
WriteAfterWrite ==
    << ParsedNoROB(Arith("DIV", "F1", "F2", "F3")),
       ParsedNoROB(Arith("ADD", "F1", "F2", "F3")) >>

\* The same with a reader of the register at the end.
WriteAfterWriteThenRead ==
    << ParsedNoROB(Arith("MUL", "F1", "F2", "F3")),
       ParsedNoROB(Arith("ADD", "F1", "F2", "F3")),
       ParsedNoROB(Arith("SUB", "F4", "F1", "F2")) >>

InstructionPoolNoROB ==
    << ParsedNoROB(Arith("ADD", "F1", "F2", "F3")),
       ParsedNoROB(Arith("MUL", "F1", "F2", "F3")),
       ParsedNoROB(Arith("SUB", "F2", "F1", "F1")),
       ParsedNoROB(Load("F1", 5, "F2")),
       ParsedNoROB(Store("F1", 50, "F0")) >>

ProgramsNoROB ==
    {WriteAfterWrite, WriteAfterWriteThenRead}
    \cup UNION {[1..n -> {InstructionPoolNoROB[k] : k \in 1..Len(InstructionPoolNoROB)}] :
                   n \in 1..MaxNoROBProgLen}

\* The constructor with its default arguments, followed by loadInstructions.
InitNoROB ==
    \E prog \in ProgramsNoROB :
        /\ instructions = [i \in 0..(Len(prog) - 1) |-> prog[i + 1]]
        /\ addRS = [i \in 0..2 |-> EmptyStationNoROB]
        /\ mulRS = [i \in 0..1 |-> EmptyStationNoROB]
        /\ loadRS = [i \in 0..2 |-> EmptyStationNoROB]
        /\ storeRS = [i \in 0..2 |-> EmptyStationNoROB]
        /\ registers = [r \in RegNames |-> INITIAL_REGISTER_VALUE]
        /\ regStatus = [r \in RegNames |-> FreeStatusNoROB]
        /\ memory = << >>
        /\ cycle = 0
        /\ nextInstructionIndex = 0
        /\ executingInstructions = << >>
        /\ completedForCDB = << >>
        /\ pc = "writeback"
        /\ rob = << >>
        /\ ROB_SIZE = 0
        /\ robHead = 0
        /\ robTail = 0
        /\ robEntriesAvailable = 0

\* isSimulationComplete: every instruction has its writeResult stamp.
isSimulationCompleteNoROB ==
    \A i \in DOMAIN instructions : instructions[i].writeResult # -1

\* The tag of a station: its group and its index, "ADD0", "LOAD2".
rsNameNoROB(rsType, rsIndex) == rsType \o to_string(rsIndex)

\* The switch of processWriteBack.  A LOAD reads memory[A + Vk] without a
\* range test: outside the array the word read is undefined (undef).
ResultValueNoROB(type, rs, mem, undef) ==
    CASE type = "ADD" -> rs.Vj + rs.Vk
      [] type = "SUB" -> rs.Vj - rs.Vk
      [] type = "MUL" -> rs.Vj * rs.Vk
      [] type = "DIV" -> IF rs.Vk # 0 THEN CDiv(rs.Vj, rs.Vk) ELSE 0
      [] type = "LOAD" -> IF InRange(rs.A + rs.Vk)
                          THEN MemoryAt(mem, rs.A + rs.Vk)
                          ELSE undef
      [] OTHER -> 0

\* The register status after the write of station rsName to register dest.
WriteBackStatusNoROB(status, dest, rsName) ==
    IF status[dest].reorderName = rsName
    THEN [status EXCEPT ![dest] = [busy |-> FALSE, reorderName |-> ""]]
    ELSE status

\* The station that wrote is given back.
ReleaseStationNoROB(rs) ==
    [rs EXCEPT !.busy = FALSE, !.instructionIndex = -1, !.Qj = "", !.Qk = "",
               !.Vj = 0, !.Vk = 0, !.A = 0, !.dest = ""]

\* A group after processWriteBack served the station found; broadcast says
\* whether updateDependentRS ran (it does not for a STORE).
WriteBackArrayNoROB(t, found, broadcast, rsName, val) ==
    LET upd == IF broadcast THEN UpdateDependentArray(RSArray(t), rsName, val)
               ELSE RSArray(t)
    IN  IF t = found.rsType
        THEN [upd EXCEPT ![found.rsIndex] = ReleaseStationNoROB(@)]
        ELSE upd

processWriteBackNoROB ==
    /\ pc = "writeback"
    /\ ~isSimulationCompleteNoROB      \* the driver calls stepSimulation only then
    /\ pc' = "issue"
    /\ IF completedForCDB = << >>
       THEN UNCHANGED << instructions, completedForCDB, addRS, mulRS, loadRS,
                         storeRS, registers, regStatus, memory >>
       ELSE LET instIndex == Head(completedForCDB)
                found == FindRSOf(instIndex)
            IN  /\ completedForCDB' = Tail(completedForCDB)
                /\ instructions' = [instructions EXCEPT ![instIndex].writeResult = cycle]
                /\ IF found.rsIndex = -1
                   THEN UNCHANGED << addRS, mulRS, loadRS, storeRS, registers,
                                     regStatus, memory >>
                   ELSE \E undef \in {0, -1} :
                        LET rs == RSArray(found.rsType)[found.rsIndex]
                            rsName == rsNameNoROB(found.rsType, found.rsIndex)
                            type == instructions[instIndex].type
                            resultValue == ResultValueNoROB(type, rs, memory, undef)
                            broadcast == type # "STORE"
                        IN  /\ memory' = IF type = "STORE"
                                         THEN MemoryWrite(memory, rs.A + rs.Vk, rs.Vj)
                                         ELSE memory
                            /\ registers' = IF broadcast
                                            THEN [registers EXCEPT ![rs.dest] = resultValue]
                                            ELSE registers
                            /\ regStatus' = IF broadcast
                                            THEN WriteBackStatusNoROB(regStatus, rs.dest, rsName)
                                            ELSE regStatus
                            /\ addRS' = WriteBackArrayNoROB("ADD", found, broadcast, rsName, resultValue)
                            /\ mulRS' = WriteBackArrayNoROB("MUL", found, broadcast, rsName, resultValue)
                            /\ loadRS' = WriteBackArrayNoROB("LOAD", found, broadcast, rsName, resultValue)
                            /\ storeRS' = WriteBackArrayNoROB("STORE", found, broadcast, rsName, resultValue)
    /\ UNCHANGED << cycle, nextInstructionIndex, executingInstructions, rob, robHead,
                    robTail, robEntriesAvailable, ROB_SIZE >>

\* An operand read at Issue: the tag of the station the register waits for,
\* or the register's value.
OperandNoROB(reg, oldV, status, regs) ==
    IF status[reg].busy
    THEN [V |-> oldV, Q |-> status[reg].reorderName]
    ELSE [V |-> regs[reg], Q |-> ""]

\* The station as issueInstruction fills it.
IssuedStationNoROB(old, inst, idx, status, regs) ==
    LET j == IF inst.type = "LOAD"
             THEN [V |-> old.Vj, Q |-> ""]
             ELSE OperandNoROB(inst.src1, old.Vj, status, regs)
        k == OperandNoROB(inst.src2, old.Vk, status, regs)
    IN  [busy |-> TRUE, op |-> inst.type, Vj |-> j.V, Vk |-> k.V, Qj |-> j.Q,
         Qk |-> k.Q,
         dest |-> IF inst.type = "STORE" THEN "" ELSE inst.dest,
         A |-> CASE inst.type = "LOAD" -> atoi(inst.src1)
                 [] inst.type = "STORE" -> atoi(inst.dest)
                 [] OTHER -> old.A,
         instructionIndex |-> idx]

\* Renaming: the destination register waits for the station.
RenameNoROB(status, inst, rsName) ==
    IF inst.type # "STORE"
    THEN [status EXCEPT ![inst.dest] = [busy |-> TRUE, reorderName |-> rsName]]
    ELSE status

issueInstructionNoROB ==
    /\ pc = "issue"
    /\ pc' = "start"
    /\ IF /\ nextInstructionIndex < NumInstructions
          /\ findFreeRS(instructions[nextInstructionIndex].type).rsIndex # -1
       THEN LET inst == instructions[nextInstructionIndex]
                rsInfo == findFreeRS(inst.type)
                rs == IssuedStationNoROB(RSArray(rsInfo.rsType)[rsInfo.rsIndex], inst,
                                         nextInstructionIndex, regStatus, registers)
                put(t) == IF t = rsInfo.rsType
                          THEN [RSArray(t) EXCEPT ![rsInfo.rsIndex] = rs]
                          ELSE RSArray(t)
            IN  /\ instructions' = [instructions EXCEPT
                                       ![nextInstructionIndex].issue = cycle]
                /\ addRS' = put("ADD")
                /\ mulRS' = put("MUL")
                /\ loadRS' = put("LOAD")
                /\ storeRS' = put("STORE")
                /\ regStatus' = RenameNoROB(regStatus, inst,
                                            rsNameNoROB(rsInfo.rsType, rsInfo.rsIndex))
                /\ nextInstructionIndex' = nextInstructionIndex + 1
       ELSE UNCHANGED << instructions, addRS, mulRS, loadRS, storeRS, regStatus,
                         nextInstructionIndex >>
    /\ UNCHANGED << registers, memory, cycle, executingInstructions, completedForCDB,
                    rob, robHead, robTail, robEntriesAvailable, ROB_SIZE >>

\* The four loops of startExecution from station number k on.
RECURSIVE StartFromNoROB(_, _)
StartFromNoROB(k, execs) ==
    IF k > Len(Stations)
    THEN execs
    ELSE LET s == Stations[k]
             rs == RSArray(s.rsType)[s.rsIndex]
         IN  IF OperandsReady(rs) /\ ~AlreadyExecuting(execs, s)
             THEN StartFromNoROB(k + 1,
                      Append(execs, [rsIndex |-> s.rsIndex, rsType |-> s.rsType,
                                     remainingCycles |-> LatencyOf(s.rsType, rs.op),
                                     instructionIndex |-> rs.instructionIndex]))
             ELSE StartFromNoROB(k + 1, execs)

startExecutionNoROB ==
    /\ pc = "start"
    /\ pc' = "advance"
    /\ executingInstructions' = StartFromNoROB(1, executingInstructions)
    /\ UNCHANGED << instructions, addRS, mulRS, loadRS, storeRS, registers, regStatus,
                    memory, cycle, nextInstructionIndex, completedForCDB, rob, robHead,
                    robTail, robEntriesAvailable, ROB_SIZE >>

\* advanceExecution, and the end of stepSimulation (cycle++).
advanceExecutionNoROB ==
    /\ pc = "advance"
    /\ pc' = "writeback"
    /\ executingInstructions' = StillExecuting(executingInstructions)
    /\ completedForCDB' = completedForCDB \o FinishedNow(executingInstructions)
    /\ instructions' =
          [i \in DOMAIN instructions |->
              IF \E n \in 1..Len(executingInstructions) :
                    /\ executingInstructions[n].instructionIndex = i
                    /\ Finishes(executingInstructions[n])
              THEN [instructions[i] EXCEPT !.execComp = cycle]
              ELSE instructions[i]]
    /\ cycle' = cycle + 1
    /\ UNCHANGED << addRS, mulRS, loadRS, storeRS, registers, regStatus, memory,
                    nextInstructionIndex, rob, robHead, robTail, robEntriesAvailable,
                    ROB_SIZE >>

\* stepSimulation: Write-Result, Issue, Execute-Start, Execute-Advance.
NextNoROB ==
    \/ processWriteBackNoROB
    \/ issueInstructionNoROB
    \/ startExecutionNoROB
    \/ advanceExecutionNoROB

SpecNoROB == InitNoROB /\ [][NextNoROB]_vars

(***************************************************************************)
(* C40  Write-after-write order in the engine without ROB.                 *)
(***************************************************************************)
\* The program that was loaded, and its execution one instruction at a time.
ProgramNoROB ==
    [n \in 1..NumInstructions |->
        [instructions[n - 1] EXCEPT !.issue = -1, !.execComp = -1, !.writeResult = -1]]

\* The registers some instruction of the program writes.
WrittenRegisters ==
    {instructions[i].dest : i \in {k \in DOMAIN instructions : instructions[k].type # "STORE"}}

\* C40: when the simulation is complete, every register that the program
\* writes holds the result of the last instruction in program order that
\* writes it, also when an older, slower writer of the register writes its
\* result after a younger, faster one.
C40_WriteAfterWriteOrder ==
    isSimulationCompleteNoROB =>
        \A r \in WrittenRegisters :
            registers[r] = SeqRun(ProgramNoROB, NumInstructions).regs[r]

============================================================================
